---- MODULE Spec2Model ----
(***************************************************************************)
(* A model of the register allocation core of libfirm's back end:          *)
(*   - the Belady spill chooser      (src/ir/be/bespillbelady.c)           *)
(*   - the chordal register allocator (src/ir/be/bechordal.c)              *)
(*   - the list scheduler            (src/ir/be/belistsched.c)             *)
(* Each pass has its own specification (SpecBelady, SpecChordal,           *)
(* SpecSched); the variables of the other passes stay idle.                *)
(***************************************************************************)
EXTENDS Integers, Sequences, FiniteSets, TLC

Range(s) == {s[i] : i \in DOMAIN s}

Min(S) == CHOOSE x \in S : \A y \in S : x <= y

\* All orders (as sequences without repetition) of the finite set S.
Orders(S) == {f \in [1..Cardinality(S) -> S] : \A i, j \in 1..Cardinality(S) : f[i] = f[j] => i = j}

(***************************************************************************)
(* Bounds of the model.                                                    *)
(***************************************************************************)
\* the largest number of non-ignore registers of the class tried by Belady
MaxRegs == 2

(***************************************************************************)
(*                         BELADY SPILL CHOOSER                            *)
(***************************************************************************)
VARIABLES
    prog,          \* the program handed to the pass: n_regs, schedules, operands, flags
    bel_phase,     \* position in be_spill_belady_spill_env: walk, fix, insert, done, abort
    stack,         \* activation records of belady(): <<[blk, pc, idx]>>, top is the last
    has_info,      \* blocks whose block_info_t exists (get_block_info(blk) != NULL)
    has_end,       \* blocks whose ws_end is set (ws_end != NULL)
    ws_start,      \* block_info_t.ws_start of every block
    ws_end,        \* block_info_t.ws_end of every block
    ws,            \* belady_env_t.ws, the main workset
    used,          \* belady_env_t.used
    instr_nr,      \* belady_env_t.instr_nr
    reloads,       \* be_add_reload requests: <<value, instruction>>
    edge_reloads,  \* be_add_reload_on_edge requests: <<value, block, pred index>>
    spilled_phis,  \* be_spill_phi requests
    fixed,         \* blocks fix_block_borders has run for
    last_displace  \* what the last displace call did (for the properties)

belady_vars == <<prog, bel_phase, stack, has_info, has_end, ws_start, ws_end, ws, used,
                 instr_nr, reloads, edge_reloads, spilled_phis, fixed, last_displace>>

\* the list scheduler
VARIABLES
    graph,         \* the graph handed to be_list_sched_graph: nodes, edge order, block order
    ls_phase,      \* position in be_list_sched_graph: idle, walk, loop, finish, done
    run,           \* how many times be_list_sched_graph was called
    todo,          \* the blocks irg_block_walk_graph has not visited yet
    sched,         \* the schedule list of every block
    sched_info,    \* sched_env_t.sched_info: num_not_sched_user, already_sched per node
    cands,         \* block_sched_env_t.cands
    live,          \* block_sched_env_t.live
    selector,      \* the selector's policy as far as it was asked: <<cands, live>> -> node
    first_run,     \* the schedules and scheduling state the first call ended with
    calls          \* the calls the running be_list_sched_graph made to the selector

sched_vars == <<graph, ls_phase, run, todo, sched, sched_info, cands, live, selector, first_run,
               calls>>

\* the chordal register allocator
VARIABLES
    cprog,         \* the program handed to be_ra_chordal_color, registers of the class
    ch_phase,      \* position in be_ra_chordal_color: constraints, assign, done, abort,
                   \* corrupt (memory behind an array was written)
    ch_pc,         \* position of the running walk: <<block, index>>
    reg,           \* arch_get_irn_register of every value, NoReg for NULL
    colors,        \* be_chordal_alloc_env_t.colors
    alloc_live,    \* be_chordal_alloc_env_t.live
    borders,       \* the border list of every block
    last_insn,     \* the last instruction handle_constraints worked on (for the properties)
    last_def,      \* the last definition assign gave a register to (for the properties)
    ch_sched,      \* the schedule of every block: the names of its instructions
    handled        \* the instructions handle_constraints was called for (for the properties)

chordal_vars == <<cprog, ch_phase, ch_pc, reg, colors, alloc_live, borders, last_insn, last_def,
                  ch_sched, handled>>

other_than_belady == <<sched_vars, chordal_vars>>

other_than_sched == <<belady_vars, chordal_vars>>

other_than_chordal == <<belady_vars, sched_vars>>

\* the list scheduler is not running
SchedIdle ==
    /\ graph = [nodes |-> << >>, order |-> << >>, blocks |-> << >>]
    /\ ls_phase = "off"
    /\ run = 0
    /\ todo = << >>
    /\ sched = << >>
    /\ sched_info = << >>
    /\ cands = {}
    /\ live = {}
    /\ selector = {}
    /\ first_run = << >>
    /\ calls = << >>

(***************************************************************************)
(* The programs.  The control flow graph is a diamond: block 1 is the      *)
(* start block, blocks 2 and 3 have block 1 as their only predecessor,     *)
(* block 4 joins 2 and 3; some programs have a block 5 that follows        *)
(* block 4.  Each block's schedule is one of a few variants, a sequence of *)
(* <<node, operands>>.                                                     *)
(***************************************************************************)
BelBlocks == 1..Len(prog.blocks)

StartBlock == 1

\* get_Block_cfgpred_block(blk, i), i from 0: Preds(blk)[i + 1]
Preds(b) == CASE b = 1 -> << >>
              [] b = 2 -> <<1>>
              [] b = 3 -> <<1>>
              [] b = 4 -> <<2, 3>>
              [] b = 5 -> <<4>>

\* opcode / mode of a node
NodeOp(n) == CASE n \in {"p", "q", "r"} -> "Phi"
               [] n \in {"e", "g"}      -> "Proj"
               [] n = "t"               -> "Tuple"
               [] n = "unk"             -> "Unknown"
               [] OTHER                 -> "Normal"

is_Phi(n) == NodeOp(n) = "Phi"

is_Proj(n) == NodeOp(n) = "Proj"

\* the values of the register class that are not ignored
\* (s1..s7 and t produce no value of the class, sp has the ignore flag)
ClassValues == {"a", "b", "c", "d", "e", "g", "p", "q", "r", "unk"}

arch_irn_consider_in_reg_alloc(n) == n \in ClassValues

B1Variants == {
    << <<"sp", << >> >>, <<"a", << >> >>, <<"b", << >> >>, <<"c", <<"a">> >>, <<"s1", <<"b", "c">> >> >>,
    << <<"a", << >> >>, <<"b", << >> >>, <<"sp", << >> >>, <<"c", <<"sp", "a">> >>, <<"s1", <<"a", "b">> >> >>,
    << <<"a", << >> >>, <<"b", << >> >>, <<"c", <<"a", "b">> >>, <<"s1", <<"c", "c">> >> >> }

B2Variants == {
    << <<"q", <<"a">> >>, <<"d", <<"q">> >>, <<"s2", <<"d", "b">> >> >>,
    << <<"d", <<"a", "b">> >>, <<"s2", <<"c", "d">> >> >>,
    << <<"d", <<"c">> >>, <<"s2", <<"a">> >> >> }

B3Variants == {
    << <<"t", <<"a">> >>, <<"e", <<"t">> >>, <<"g", <<"t">> >>, <<"s3", <<"e", "g">> >> >>,
    << <<"t", <<"b", "c">> >>, <<"e", <<"t">> >>, <<"g", <<"t">> >>, <<"s3", <<"g", "a">> >> >> }

B4Variants == {
    << <<"p", <<"d", "e">> >>, <<"s4", <<"p", "a">> >>, <<"s5", <<"b">> >> >>,
    << <<"p", <<"d", "unk">> >>, <<"r", <<"c", "g">> >>, <<"s4", <<"a", "b">> >>, <<"s5", <<"r", "p">> >> >>,
    << <<"p", <<"unk", "g">> >>, <<"s4", <<"c">> >>, <<"s5", <<"p", "c">> >> >> }

B5Variants == {
    << <<"s6", <<"a", "a">> >> >>,
    << <<"s6", <<"b", "c">> >>, <<"s7", <<"p">> >> >> }

DontSpillChoices == {{}, {"a"}, {"b", "c"}}

\* the programs with a fifth block: a phi of block 4 lives into block 5
TailPrograms ==
    {[n_regs |-> k,
      blocks |-> << << <<"a", << >> >>, <<"b", << >> >>, <<"c", <<"a", "b">> >>,
                       <<"s1", <<"c", "c">> >> >>,
                    << <<"d", <<"c">> >>, <<"s2", <<"a">> >> >>,
                    << <<"t", <<"a">> >>, <<"e", <<"t">> >>, <<"g", <<"t">> >>,
                       <<"s3", <<"e", "g">> >> >>,
                    << <<"p", <<"d", "e">> >>, <<"s4", <<"p", "a">> >>, <<"s5", <<"b">> >> >>,
                    v5 >>,
      dont_spill |-> ds] :
        k \in 1..MaxRegs, v5 \in B5Variants, ds \in DontSpillChoices}

Programs ==
    {[n_regs |-> k, blocks |-> <<v1, v2, v3, v4>>, dont_spill |-> ds] :
        k \in 1..MaxRegs, v1 \in B1Variants, v2 \in B2Variants, v3 \in B3Variants,
        v4 \in B4Variants, ds \in DontSpillChoices}
    \cup TailPrograms

n_regs == prog.n_regs

\* sched_foreach(blk, irn): the schedule of a block
Sched(b) == [i \in DOMAIN prog.blocks[b] |-> prog.blocks[b][i][1]]

SchedLen(b) == Len(prog.blocks[b])

AllScheduled == UNION {Range(Sched(b)) : b \in BelBlocks}

\* get_nodes_block(n) of a scheduled node
get_nodes_block(n) == CHOOSE b \in BelBlocks : n \in Range(Sched(b))

\* the operands of a node: get_irn_n(n, i) is Ins(n)[i + 1]
Ins(n) == IF n \in AllScheduled
          THEN LET b == get_nodes_block(n)
                   i == CHOOSE i \in DOMAIN prog.blocks[b] : prog.blocks[b][i][1] = n
               IN prog.blocks[b][i][2]
          ELSE << >>

\* the successor edges of block b: <<s, i>> with Preds(s)[i] = b
SuccEdges(b) == {<<s, i>> : s \in BelBlocks, i \in 1..2} \cap
                {e \in BelBlocks \X (1..2) : e[2] \in DOMAIN Preds(e[1]) /\ Preds(e[1])[e[2]] = b}

\* the phis of the class at the head of block b
PhisOf(b) == {n \in Range(Sched(b)) : is_Phi(n) /\ arch_irn_consider_in_reg_alloc(n)}

(***************************************************************************)
(* Liveness and the next-use distance: the oracles the pass consults.      *)
(***************************************************************************)
\* the value of "never used again"
USES_INFINITY == 1000

\* positions from..end of block b whose (non-phi) node uses v
UsePositions(b, from, v) ==
    {j \in from..SchedLen(b) : ~is_Phi(Sched(b)[j]) /\ v \in Range(Ins(Sched(b)[j]))}

\* v is the operand for edge i of some phi of block s
IsPhiArg(s, i, v) == \E ph \in Range(Sched(s)) : is_Phi(ph) /\ Ins(ph)[i] = v

RECURSIVE DistFromStart(_, _, _)
\* over the successor edges of b: the least distance to a use of v, depth blocks deep
SuccDist(b, v, depth) ==
    LET ds == {IF IsPhiArg(e[1], e[2], v) THEN 0 ELSE DistFromStart(e[1], v, depth) :
                 e \in SuccEdges(b)}
    IN IF depth <= 0 \/ ds = {} THEN USES_INFINITY ELSE Min(ds)

DistFromStart(b, v, depth) ==
    LET U == UsePositions(b, 1, v)
    IN IF U # {} THEN Min(U) - 1
       ELSE LET d == SuccDist(b, v, depth - 1)
            IN IF d >= USES_INFINITY THEN USES_INFINITY ELSE SchedLen(b) + d

\* be_get_next_use(uses, from, from_step, def, skip_from_uses), from at position pos
be_get_next_use(b, pos, v, skip_from_uses) ==
    LET first == IF skip_from_uses THEN pos + 1 ELSE pos
        U == UsePositions(b, first, v)
    IN IF U # {} THEN Min(U) - pos
       ELSE LET d == SuccDist(b, v, Cardinality(BelBlocks))
            IN IF d >= USES_INFINITY THEN USES_INFINITY ELSE (SchedLen(b) - pos + 1) + d

RECURSIVE LiveInD(_, _)
LiveOutD(b, depth) ==
    IF depth <= 0 THEN {}
    ELSE UNION {(LiveInD(e[1], depth - 1) \ Range(Sched(e[1])))
                \cup {Ins(ph)[e[2]] : ph \in {n \in Range(Sched(e[1])) : is_Phi(n)}} :
                e \in SuccEdges(b)}

LiveInD(b, depth) ==
    ({v \in AllScheduled : UsePositions(b, 1, v) # {}} \cup LiveOutD(b, depth)) \ Range(Sched(b))

\* live_foreach(blk, li) with live_is_in(li)
LiveIn(b) == LiveInD(b, Cardinality(BelBlocks)) \cap AllScheduled

(***************************************************************************)
(* Worksets: sequences of values, vals[0..len-1].                          *)
(***************************************************************************)
workset_contains(w, val) == val \in Range(w)

\* the assertion "Workset already full!" of workset_insert fails
workset_insert_full(w, val) ==
    /\ arch_irn_consider_in_reg_alloc(val)
    /\ ~workset_contains(w, val)
    /\ ~(Len(w) < n_regs)

\* mutant of workset_insert: the register class of val is not looked at
workset_insert_any(w, val) ==
    IF workset_contains(w, val) THEN w ELSE Append(w, val)

workset_insert(w, val) ==
    IF ~arch_irn_consider_in_reg_alloc(val) THEN w
    ELSE IF workset_contains(w, val) THEN w
    ELSE Append(w, val)

workset_remove(w, val) ==
    IF ~workset_contains(w, val) THEN w
    ELSE LET i == CHOOSE i \in DOMAIN w : w[i] = val
             n == Len(w)
         IN [j \in 1..(n - 1) |-> IF j = i THEN w[n] ELSE w[j]]

RECURSIVE InsertAll(_, _)
\* workset_insert of every member of vals, in order
InsertAll(w, vals) ==
    IF vals = << >> THEN w ELSE InsertAll(workset_insert(w, Head(vals)), Tail(vals))

RECURSIVE InsertAllFull(_, _)
\* some workset_insert of that loop fails its assertion
InsertAllFull(w, vals) ==
    IF vals = << >> THEN FALSE
    ELSE workset_insert_full(w, Head(vals))
         \/ InsertAllFull(workset_insert(w, Head(vals)), Tail(vals))

RECURSIVE RemoveAll(_, _)
RemoveAll(w, vals) ==
    IF vals = << >> THEN w ELSE RemoveAll(workset_remove(w, Head(vals)), Tail(vals))

\* workset_clone, workset_copy: the copy shares nothing with the original
workset_clone(w) == w

\* the outcomes of qsort(vals, loc_compare): every order of w by increasing time
\* (qsort is not stable, the order among equal times is not determined)
workset_sort(w, time) ==
    {s \in Orders(Range(w)) : \A i, j \in DOMAIN s : i < j => time[s[i]] <= time[s[j]]}

(***************************************************************************)
(* get_distance and displace.                                              *)
(***************************************************************************)
get_distance(b, pos, def, skip_from_uses) ==
    IF def \in prog.dont_spill THEN 0 ELSE be_get_next_use(b, pos, def, skip_from_uses)

\* mutant of to_insert: the workset is not looked at
to_insert_all(new_vals) == new_vals

\* step 1 of displace: the values of new_vals that are not in the workset
to_insert(new_vals) == SelectSeq(new_vals, LAMBDA v : ~workset_contains(ws, v))

max_allowed(demand) == n_regs - demand

\* mutant of skip_arg: is_usage is handed on as it is
skip_arg_same(is_usage) == is_usage

\* the skip_from_uses argument displace hands to get_distance
skip_arg(is_usage) == ~is_usage

\* the times workset_set_time gives the members of the workset when room has to
\* be made (no time is set otherwise)
displace_times(b, pos, new_vals, is_usage) ==
    IF Len(ws) > max_allowed(Len(to_insert(new_vals)))
    THEN [v \in Range(ws) |-> get_distance(b, pos, v, skip_arg(is_usage))]
    ELSE << >>

\* the orders of the workset displace may continue with: sorted by distance
\* when room has to be made, untouched otherwise
DisplaceOrders(b, pos, new_vals, is_usage) ==
    IF Len(ws) > max_allowed(Len(to_insert(new_vals)))
    THEN workset_sort(ws, displace_times(b, pos, new_vals, is_usage))
    ELSE {ws}

\* mutant of Evicted: the head of the sorted workset is disposed of
Evicted_head(sorted, new_vals) ==
    SubSeq(sorted, 1, Len(sorted) - max_allowed(Len(to_insert(new_vals))))

\* the values displace disposes of, given the sorted workset
Evicted(sorted, new_vals) ==
    SubSeq(sorted, max_allowed(Len(to_insert(new_vals))) + 1, Len(sorted))

\* the values marked as used once step 1 is through
used_after(new_vals, is_usage) == IF is_usage THEN used \cup Range(new_vals) ELSE used

\* disposed before their first use in the block ("dumb" disposals)
Dumb(sorted, new_vals, is_usage) ==
    SelectSeq(Evicted(sorted, new_vals), LAMBDA v : v \notin used_after(new_vals, is_usage))

\* mutant of displace_reloads: the reloads are requested for definitions
displace_reloads_for_defs(new_vals, is_usage, instr) ==
    IF ~is_usage THEN {<<v, instr>> : v \in Range(to_insert(new_vals))} ELSE {}

\* the reloads step 1 asks for
displace_reloads(new_vals, is_usage, instr) ==
    IF is_usage THEN {<<v, instr>> : v \in Range(to_insert(new_vals))} ELSE {}

\* the workset after steps 2 and 3
displace_ws(sorted, new_vals) ==
    InsertAll(SubSeq(sorted, 1, Len(sorted) - Len(Evicted(sorted, new_vals))),
              to_insert(new_vals))

\* step 3 of displace trips the assertion "Workset already full!"
displace_full(new_vals) ==
    LET room == max_allowed(Len(to_insert(new_vals)))
        kept == IF Len(ws) > room THEN room ELSE Len(ws)
    IN InsertAllFull(SubSeq(ws, 1, kept), to_insert(new_vals))

\* displace(env, new_vals, is_usage) at the instruction at position pos of block b;
\* sorted is the outcome of workset_sort; last_displace.requested lists the calls
\* of be_add_reload in their order
displace(b, pos, new_vals, is_usage, sorted) ==
    /\ used' = used_after(new_vals, is_usage)
    /\ reloads' = reloads \cup displace_reloads(new_vals, is_usage, Sched(b)[pos])
    /\ ws_start' = [ws_start EXCEPT ![b] = RemoveAll(@, Dumb(sorted, new_vals, is_usage))]
    /\ spilled_phis' = spilled_phis \cup
                       {v \in Range(Dumb(sorted, new_vals, is_usage)) : is_Phi(v)}
    /\ ws' = displace_ws(sorted, new_vals)
    /\ last_displace' = [blk |-> b, instr |-> Sched(b)[pos], is_usage |-> is_usage,
                         before |-> ws, new_vals |-> new_vals,
                         evicted |-> Evicted(sorted, new_vals), used_before |-> used,
                         pos |-> pos, time |-> displace_times(b, pos, new_vals, is_usage),
                         after |-> displace_ws(sorted, new_vals),
                         requested |-> IF is_usage THEN to_insert(new_vals) ELSE << >>]

(***************************************************************************)
(* The block walk: belady() and compute_block_start_info().                *)
(***************************************************************************)
Top == stack[Len(stack)]

Pop == SubSeq(stack, 1, Len(stack) - 1)

SetTop(f) == [stack EXCEPT ![Len(stack)] = f]

\* mutant of NextInstr: the walk does not skip the Projs and the Phis
NextInstr_all(b, pos) == pos + 1

\* the next position after pos holding a node that is neither a Proj nor a Phi
\* (those are skipped by the walk), SchedLen(b) + 1 when there is none
NextInstr(b, pos) ==
    LET later == {j \in (pos + 1)..SchedLen(b) : ~is_Proj(Sched(b)[j]) /\ ~is_Phi(Sched(b)[j])}
    IN IF later = {} THEN SchedLen(b) + 1 ELSE Min(later)

\* the frame of block b once the instruction at position pos has been handled
Advance(b, pos) ==
    IF NextInstr(b, pos) > SchedLen(b)
    THEN [blk |-> b, pc |-> "end", idx |-> 0]
    ELSE [blk |-> b, pc |-> "use", idx |-> NextInstr(b, pos)]

\* the Projs that follow the node at position pos in the schedule
RECURSIVE ProjsAfter(_, _)
ProjsAfter(b, pos) ==
    IF pos + 1 <= SchedLen(b) /\ is_Proj(Sched(b)[pos + 1])
    THEN <<Sched(b)[pos + 1]>> \o ProjsAfter(b, pos + 1)
    ELSE << >>

\* the values an instruction defines, as belady() collects them
DefinedVals(b, pos) ==
    IF NodeOp(Sched(b)[pos]) = "Tuple" THEN ProjsAfter(b, pos) ELSE <<Sched(b)[pos]>>

\* the candidates of the start workset: the phis of the block, then its live-ins
Starters(b) ==
    {v \in Range(Sched(b)) : is_Phi(v) /\ arch_irn_consider_in_reg_alloc(v)}
    \cup {v \in LiveIn(b) : arch_irn_consider_in_reg_alloc(v)}

\* mutant of SortedStarters: the candidates are not sorted
SortedStarters_unsorted(b) == Orders(Starters(b))

\* qsort(starters, count, ..., loc_compare)
SortedStarters(b) ==
    {s \in Orders(Starters(b)) :
        \A i, j \in DOMAIN s : i < j => get_distance(b, 1, s[i], FALSE) <= get_distance(b, 1, s[j], FALSE)}

\* mutant of ws_count: the MIN with n_regs is forgotten
ws_count_all(count) == count

ws_count(count) == IF count < n_regs THEN count ELSE n_regs

\* mutant of single_pred: no block takes the end workset of its predecessor
single_pred_never(b) == FALSE

single_pred(b) == Len(Preds(b)) = 1 /\ b # StartBlock

\* belady(blk) from the point where the start workset is known
BeginWalk(b, start) ==
    /\ ws_start' = [ws_start EXCEPT ![b] = start]
    /\ ws' = workset_clone(start)
    /\ used' = {}
    /\ instr_nr' = 0
    /\ stack' = SetTop(Advance(b, 0))

\* the block walker calls belady(blk) for a block that has no block info yet
BeladyEnter(b) ==
    /\ bel_phase = "walk"
    /\ stack = << >>
    /\ b \notin has_info
    /\ stack' = <<[blk |-> b, pc |-> "start", idx |-> 0]>>
    /\ UNCHANGED <<prog, bel_phase, has_info, has_end, ws_start, ws_end, ws, used, instr_nr,
                   reloads, edge_reloads, spilled_phis, fixed, last_displace>>
    /\ UNCHANGED other_than_belady

\* compute_block_start_info: the start workset is the end workset of the only
\* predecessor; pred has its block info
CloneFromPred(b) ==
    IF Preds(b)[1] \notin has_end
    THEN /\ bel_phase' = "abort"
         /\ UNCHANGED <<ws_start, ws, used, instr_nr, stack>>
    ELSE /\ BeginWalk(b, workset_clone(ws_end[Preds(b)[1]]))
         /\ UNCHANGED bel_phase

\* compute_block_start_info of the block on top, up to the recursive call or to
\* the beginning of the walk
ComputeBlockStartInfo ==
    /\ bel_phase = "walk"
    /\ stack # << >>
    /\ Top.pc = "start"
    /\ LET b == Top.blk IN
       /\ has_info' = has_info \cup {b}
       /\ IF single_pred(b)
          THEN IF Preds(b)[1] \notin has_info
               THEN /\ stack' = Append(SetTop([Top EXCEPT !.pc = "clone"]),
                                       [blk |-> Preds(b)[1], pc |-> "start", idx |-> 0])
                    /\ UNCHANGED <<bel_phase, ws_start, ws, used, instr_nr, spilled_phis>>
               ELSE /\ CloneFromPred(b)
                    /\ UNCHANGED spilled_phis
          ELSE \E starters \in SortedStarters(b) :
                 /\ BeginWalk(b, SubSeq(starters, 1, ws_count(Len(starters))))
                 /\ spilled_phis' = spilled_phis \cup
                        {starters[i] : i \in {j \in DOMAIN starters :
                             /\ j > ws_count(Len(starters))
                             /\ is_Phi(starters[j])
                             /\ starters[j] \in Range(Sched(b))}}
                 /\ UNCHANGED bel_phase
    /\ UNCHANGED <<prog, has_end, ws_end, reloads, edge_reloads, fixed, last_displace>>
    /\ UNCHANGED other_than_belady

\* the recursive belady(pred_blk) has returned into compute_block_start_info
ReturnFromPred ==
    /\ bel_phase = "walk"
    /\ stack # << >>
    /\ Top.pc = "clone"
    /\ CloneFromPred(Top.blk)
    /\ UNCHANGED <<prog, has_info, has_end, ws_end, reloads, edge_reloads, spilled_phis,
                   fixed, last_displace>>
    /\ UNCHANGED other_than_belady

\* "allocate all values _used_ by this instruction"
UseDisplace ==
    /\ bel_phase = "walk"
    /\ stack # << >>
    /\ Top.pc = "use"
    /\ LET b == Top.blk
           pos == Top.idx
           irn == Sched(b)[pos]
       IN IF \/ Len(ws) > n_regs
             \/ InsertAllFull(<< >>, Ins(irn))
             \/ displace_full(InsertAll(<< >>, Ins(irn)))
          THEN /\ bel_phase' = "abort"
               /\ UNCHANGED <<stack, ws_start, ws, used, reloads, spilled_phis, last_displace>>
          ELSE /\ \E sorted \in DisplaceOrders(b, pos, InsertAll(<< >>, Ins(irn)), TRUE) :
                    displace(b, pos, InsertAll(<< >>, Ins(irn)), TRUE, sorted)
               /\ stack' = SetTop([Top EXCEPT !.pc = "def"])
               /\ UNCHANGED bel_phase
    /\ UNCHANGED <<prog, has_info, has_end, ws_end, instr_nr, edge_reloads, fixed>>
    /\ UNCHANGED other_than_belady

\* "allocate all values _defined_ by this instruction"
DefDisplace ==
    /\ bel_phase = "walk"
    /\ stack # << >>
    /\ Top.pc = "def"
    /\ LET b == Top.blk
           pos == Top.idx
       IN IF \/ InsertAllFull(<< >>, DefinedVals(b, pos))
             \/ displace_full(InsertAll(<< >>, DefinedVals(b, pos)))
          THEN /\ bel_phase' = "abort"
               /\ UNCHANGED <<stack, ws_start, ws, used, reloads, spilled_phis, last_displace,
                              instr_nr>>
          ELSE /\ \E sorted \in DisplaceOrders(b, pos, InsertAll(<< >>, DefinedVals(b, pos)), FALSE) :
                    displace(b, pos, InsertAll(<< >>, DefinedVals(b, pos)), FALSE, sorted)
               /\ instr_nr' = instr_nr + 1
               /\ stack' = SetTop(Advance(b, pos))
               /\ UNCHANGED bel_phase
    /\ UNCHANGED <<prog, has_info, has_end, ws_end, edge_reloads, fixed>>
    /\ UNCHANGED other_than_belady

\* "Remember end-workset for this block", belady() returns
BeladyEnd ==
    /\ bel_phase = "walk"
    /\ stack # << >>
    /\ Top.pc = "end"
    /\ ws_end' = [ws_end EXCEPT ![Top.blk] = workset_clone(ws)]
    /\ has_end' = has_end \cup {Top.blk}
    /\ stack' = Pop
    /\ UNCHANGED <<prog, bel_phase, has_info, ws_start, ws, used, instr_nr, reloads,
                   edge_reloads, spilled_phis, fixed, last_displace>>
    /\ UNCHANGED other_than_belady

\* mutant of WalkDone: the walk is taken to be over whenever belady is in no block
WalkDone_early ==
    /\ bel_phase = "walk"
    /\ stack = << >>
    /\ bel_phase' = "fix"
    /\ UNCHANGED <<prog, stack, has_info, has_end, ws_start, ws_end, ws, used, instr_nr,
                   reloads, edge_reloads, spilled_phis, fixed, last_displace>>
    /\ UNCHANGED other_than_belady

\* the first irg_block_walk_graph is over
WalkDone ==
    /\ bel_phase = "walk"
    /\ stack = << >>
    /\ has_info = BelBlocks
    /\ bel_phase' = "fix"
    /\ UNCHANGED <<prog, stack, has_info, has_end, ws_start, ws_end, ws, used, instr_nr,
                   reloads, edge_reloads, spilled_phis, fixed, last_displace>>
    /\ UNCHANGED other_than_belady

(***************************************************************************)
(* fix_block_borders and the end of the pass.                              *)
(***************************************************************************)
\* mutant of EdgeValue: the phis are not replaced by their operand
EdgeValue_same(blk, i, irnb) == irnb

\* the value looked for at the end of predecessor i of blk, for irnb of blk's ws_start
EdgeValue(blk, i, irnb) ==
    IF is_Phi(irnb) /\ irnb \in Range(Sched(blk)) THEN Ins(irnb)[i] ELSE irnb

\* the reloads fix_block_borders asks for on the edge from predecessor i
border_reloads(blk, i) ==
    {<<EdgeValue(blk, i, irnb), blk, i>> :
        irnb \in {v \in Range(ws_start[blk]) :
                    /\ NodeOp(EdgeValue(blk, i, v)) # "Unknown"
                    /\ ~workset_contains(ws_end[Preds(blk)[i]], EdgeValue(blk, i, v))}}

fix_block_borders(blk) ==
    /\ bel_phase = "fix"
    /\ blk \notin fixed
    /\ edge_reloads' = edge_reloads \cup UNION {border_reloads(blk, i) : i \in DOMAIN Preds(blk)}
    /\ fixed' = fixed \cup {blk}
    /\ UNCHANGED <<prog, bel_phase, stack, has_info, has_end, ws_start, ws_end, ws, used,
                   instr_nr, reloads, spilled_phis, last_displace>>
    /\ UNCHANGED other_than_belady

\* the second irg_block_walk_graph is over
FixDone ==
    /\ bel_phase = "fix"
    /\ fixed = BelBlocks
    /\ bel_phase' = "insert"
    /\ UNCHANGED <<prog, stack, has_info, has_end, ws_start, ws_end, ws, used, instr_nr,
                   reloads, edge_reloads, spilled_phis, fixed, last_displace>>
    /\ UNCHANGED other_than_belady

\* be_insert_spills_reloads: the requests are turned into Spill and Reload nodes
be_insert_spills_reloads ==
    /\ bel_phase = "insert"
    /\ bel_phase' = "done"
    /\ UNCHANGED <<prog, stack, has_info, has_end, ws_start, ws_end, ws, used, instr_nr,
                   reloads, edge_reloads, spilled_phis, fixed, last_displace>>
    /\ UNCHANGED other_than_belady

NoDisplace == [blk |-> 0, instr |-> "", is_usage |-> FALSE, before |-> << >>,
               new_vals |-> << >>, evicted |-> << >>, used_before |-> {},
               pos |-> 0, time |-> << >>, after |-> << >>, requested |-> << >>]

NextBelady ==
    \/ \E b \in BelBlocks : BeladyEnter(b)
    \/ ComputeBlockStartInfo
    \/ ReturnFromPred
    \/ UseDisplace
    \/ DefDisplace
    \/ BeladyEnd
    \/ WalkDone
    \/ \E b \in BelBlocks : fix_block_borders(b)
    \/ FixDone
    \/ be_insert_spills_reloads

\* the Belady pass is not running
BeladyIdle ==
    /\ prog = [n_regs |-> 0, blocks |-> << >>, dont_spill |-> {}]
    /\ bel_phase = "idle"
    /\ stack = << >>
    /\ has_info = {}
    /\ has_end = {}
    /\ ws_start = << >>
    /\ ws_end = << >>
    /\ ws = << >>
    /\ used = {}
    /\ instr_nr = 0
    /\ reloads = {}
    /\ edge_reloads = {}
    /\ spilled_phis = {}
    /\ fixed = {}
    /\ last_displace = NoDisplace

(***************************************************************************)
(* The program after be_insert_spills_reloads: a Reload of v in front of   *)
(* every instruction (on every edge) a reload of v was requested for, a    *)
(* Spill behind the definition of every reloaded value, the phis marked by *)
(* be_spill_phi turned into memory phis.  A value is live in a register at *)
(* a point when some path from there reaches a use of it that no Reload of *)
(* it precedes.                                                            *)
(***************************************************************************)
RelAt(n) == {v \in ClassValues : <<v, n>> \in reloads}

EdgeRel(s, i) == {v \in ClassValues : <<v, s, i>> \in edge_reloads}

\* v gets a Spill behind its definition
Spilled(v) == (\E r \in reloads : r[1] = v) \/ (\E r \in edge_reloads : r[1] = v)

\* the node defines a value held in a register
DefinesReg(n) == arch_irn_consider_in_reg_alloc(n) /\ n \notin spilled_phis

\* the operands of the class a node reads from registers
RegUses(n) ==
    IF is_Phi(n) THEN {}
    ELSE {v \in Range(Ins(n)) : arch_irn_consider_in_reg_alloc(v) /\ NodeOp(v) # "Unknown"}

RECURSIVE RLBefore(_, _, _)
RECURSIVE RLOut(_, _)
\* live behind the node at position j of block b
RLAfter(b, j, depth) ==
    LET n == Sched(b)[j]
        down == IF j = SchedLen(b) THEN RLOut(b, depth)
                ELSE RLBefore(b, j + 1, depth) \ RelAt(Sched(b)[j + 1])
    IN down \cup (IF DefinesReg(n) /\ Spilled(n) THEN {n} ELSE {})

\* live in front of the node at position j of block b, behind its Reloads
RLBefore(b, j, depth) ==
    LET n == Sched(b)[j]
    IN (RLAfter(b, j, depth) \ (IF DefinesReg(n) THEN {n} ELSE {})) \cup RegUses(n)

\* live on the edge into s from its predecessor i, behind the Reloads of the edge
EdgeLive(s, i, depth) ==
    ((RLBefore(s, 1, depth) \ RelAt(Sched(s)[1])) \ PhisOf(s))
    \cup {v \in {Ins(ph)[i] : ph \in PhisOf(s) \ spilled_phis} :
            arch_irn_consider_in_reg_alloc(v) /\ NodeOp(v) # "Unknown"}

RLOut(b, depth) ==
    IF depth <= 0 THEN {}
    ELSE UNION {EdgeLive(e[1], e[2], depth - 1) \ EdgeRel(e[1], e[2]) : e \in SuccEdges(b)}

Depth == Cardinality(BelBlocks)

\* the largest number of values live in registers at one point of the program
PressureOK(k) ==
    /\ \A b \in BelBlocks : \A j \in 1..SchedLen(b) :
          /\ Cardinality(RLBefore(b, j, Depth)) <= k
          /\ Cardinality(RLAfter(b, j, Depth)) <= k
    /\ \A s \in BelBlocks : \A i \in DOMAIN Preds(s) : Cardinality(EdgeLive(s, i, Depth)) <= k

(***************************************************************************)
(*                            LIST SCHEDULER                               *)
(***************************************************************************)
(***************************************************************************)
(* The graphs.  A node has an opcode, a block, data inputs and dependency  *)
(* inputs; mode_T nodes deliver their results through Projs.  order is the *)
(* order of every out edge list (edges_activate builds it from the graph), *)
(* blocks the order irg_block_walk_graph visits the blocks in.             *)
(***************************************************************************)
Node(op, block, ins, deps, mode_T) ==
    [op |-> op, block |-> block, ins |-> ins, deps |-> deps, mode_T |-> mode_T]

\* a loop block with a phi that takes a value of its own block, a Keep
LoopGraph ==
    [nodes |-> [start |-> Node("Start", 1, << >>, << >>, TRUE),
                a     |-> Node("Proj", 1, <<"start">>, << >>, FALSE),
                b     |-> Node("Proj", 1, <<"start">>, << >>, FALSE),
                n1    |-> Node("Normal", 1, <<"a", "b">>, << >>, FALSE),
                n2    |-> Node("Normal", 1, <<"a">>, << >>, FALSE),
                k     |-> Node("Keep", 1, <<"n1">>, << >>, FALSE),
                p     |-> Node("Phi", 2, <<"n2", "y">>, << >>, FALSE),
                x     |-> Node("Normal", 2, <<"p", "n1">>, << >>, FALSE),
                y     |-> Node("Normal", 2, <<"n1", "x">>, << >>, FALSE),
                z     |-> Node("Normal", 2, <<"x", "x">>, <<"y">>, FALSE),
                w     |-> Node("Normal", 2, <<"n2">>, << >>, FALSE),
                end   |-> Node("End", 2, <<"k", "z", "w">>, << >>, FALSE)],
     order |-> <<"start", "a", "b", "n1", "n2", "k", "p", "x", "y", "z", "w", "end">>]

\* a tuple with its Projs, a Sync, a CopyKeep, a node nobody uses, a node used
\* through a dependency edge only
TupleGraph ==
    [nodes |-> [start |-> Node("Start", 1, << >>, << >>, TRUE),
                a     |-> Node("Proj", 1, <<"start">>, << >>, FALSE),
                t     |-> Node("Normal", 1, <<"a">>, << >>, TRUE),
                e     |-> Node("Proj", 1, <<"t">>, << >>, FALSE),
                g     |-> Node("Proj", 1, <<"t">>, << >>, FALSE),
                m     |-> Node("Normal", 1, <<"e", "g">>, << >>, FALSE),
                s     |-> Node("Sync", 1, <<"e", "m">>, << >>, FALSE),
                u     |-> Node("Normal", 1, <<"a">>, << >>, FALSE),
                d     |-> Node("Normal", 1, <<"a">>, << >>, FALSE),
                h     |-> Node("Normal", 1, <<"g">>, <<"d">>, FALSE),
                c     |-> Node("Normal", 2, <<"m">>, << >>, FALSE),
                ck    |-> Node("CopyKeep", 2, <<"c", "m">>, << >>, FALSE),
                r     |-> Node("Normal", 2, <<"s", "g">>, << >>, FALSE),
                end   |-> Node("End", 2, <<"ck", "r", "h">>, << >>, FALSE)],
     order |-> <<"end", "r", "ck", "c", "h", "d", "u", "s", "m", "g", "e", "t", "a", "start">>]

\* straight line code the selector has choices in
WideGraph ==
    [nodes |-> [start |-> Node("Start", 1, << >>, << >>, TRUE),
                a     |-> Node("Proj", 1, <<"start">>, << >>, FALSE),
                b     |-> Node("Proj", 1, <<"start">>, << >>, FALSE),
                n1    |-> Node("Normal", 1, <<"a">>, << >>, FALSE),
                n2    |-> Node("Normal", 1, <<"b">>, << >>, FALSE),
                n3    |-> Node("Normal", 1, <<"a", "b">>, << >>, FALSE),
                n4    |-> Node("Normal", 2, <<"n1", "n2">>, << >>, FALSE),
                n5    |-> Node("Normal", 2, <<"n3">>, << >>, FALSE),
                n6    |-> Node("Normal", 2, <<"n4", "n5">>, <<"n5">>, FALSE),
                end   |-> Node("End", 2, <<"n6">>, << >>, FALSE)],
     order |-> <<"n6", "start", "n3", "a", "n5", "b", "n2", "n1", "n4", "end">>]

SchedBlocks == {1, 2}

Graphs == {[nodes |-> g.nodes, order |-> g.order, blocks |-> bo] :
              g \in {LoopGraph, TupleGraph, WideGraph}, bo \in {<<1, 2>>, <<2, 1>>}}

Nodes == DOMAIN graph.nodes

sched_block(n) == graph.nodes[n].block

\* get_irn_in_or_dep over 0 .. get_irn_ins_or_deps - 1
ins_or_deps(n) == graph.nodes[n].ins \o graph.nodes[n].deps

RECURSIVE edge_list(_, _, _)
\* the users of n over the edges of one kind, one entry for every edge
edge_list(n, kind, i) ==
    IF i > Len(graph.order) THEN << >>
    ELSE LET user == graph.order[i]
             from == IF kind = "dep" THEN graph.nodes[user].deps ELSE graph.nodes[user].ins
         IN [k \in 1..Cardinality({j \in DOMAIN from : from[j] = n}) |-> user]
            \o edge_list(n, kind, i + 1)

\* foreach_out_edge(irn, edge)
out_edges(n) == edge_list(n, "normal", 1)

\* foreach_out_edge_kind(irn, edge, EDGE_KIND_DEP)
dep_edges(n) == edge_list(n, "dep", 1)

get_irn_n_edges(n) == Len(out_edges(n))

\* foreach_out_edge(block, edge): the nodes of the block
block_edges(b) == SelectSeq(graph.order, LAMBDA n : sched_block(n) = b)

to_appear_in_schedule(n) == graph.nodes[n].op \notin {"Proj", "End"}

skip_Proj(n) == IF graph.nodes[n].op = "Proj" THEN graph.nodes[n].ins[1] ELSE n

RECURSIVE get_num_successors(_)
get_num_successors(irn) ==
    IF graph.nodes[irn].mode_T
    THEN LET projs == out_edges(irn)
             cnt[i \in 0..Len(projs)] ==
                IF i = 0 THEN 0
                ELSE cnt[i - 1] + (IF graph.nodes[projs[i]].mode_T
                                   THEN get_num_successors(projs[i])
                                   ELSE get_irn_n_edges(projs[i]))
         IN cnt[Len(projs)]
    ELSE Len(SelectSeq(out_edges(irn), LAMBDA user : graph.nodes[user].op # "End"))

\* the anchor holds the Start and the End node of the graph
is_Anchor_held(n) == graph.nodes[n].op \in {"Start", "End"}

\* get_irn_n_edges of a node: its users over normal edges, the anchor included
sched_n_edges(n) == get_irn_n_edges(n) + (IF is_Anchor_held(n) THEN 1 ELSE 0)

(***************************************************************************)
(* The state list_sched_block works on is passed around as a record:      *)
(* sched (the list of the block), info (sched_info), cands, live, calls.   *)
(* A call to the selector is recorded with the block whose environment it  *)
(* is given, the node it is about and, for select, the ready set it gets.  *)
(***************************************************************************)
selector_call(fn, b, irn, ready) == [fn |-> fn, block |-> b, irn |-> irn, ready |-> ready]

is_already_scheduled(st, n) == st.info[n].already_sched

RECURSIVE release_inputs(_, _, _)
\* the loop of update_sched_liveness over the inputs, from the last to the first
release_inputs(st, irn, i) ==
    IF i <= 0 THEN st
    ELSE LET in == skip_Proj(ins_or_deps(irn)[i])
             num == st.info[in].num_not_sched_user - 1
         IN release_inputs(
                IF in \in st.live
                THEN [st EXCEPT !.info[in].num_not_sched_user = num,
                                !.live = IF num <= 0 THEN @ \ {in} ELSE @]
                ELSE st,
                irn, i - 1)

update_sched_liveness(st, irn) ==
    IF graph.nodes[irn].op = "Proj" THEN st
    ELSE LET st1 == release_inputs(st, irn, Len(ins_or_deps(irn)))
             i == get_num_successors(irn)
         IN IF i > 0
            THEN [st1 EXCEPT !.info[irn].num_not_sched_user = i, !.live = @ \cup {irn}]
            ELSE st1

\* mutant of operands_ready: operands of the block need not be scheduled
operands_ready_always(st, b, irn) == TRUE

\* the loop of make_ready over the operands
operands_ready(st, b, irn) ==
    \A i \in DOMAIN ins_or_deps(irn) :
        ~(~is_already_scheduled(st, ins_or_deps(irn)[i]) /\ sched_block(ins_or_deps(irn)[i]) = b)

RECURSIVE add_to_sched(_, _, _)
RECURSIVE make_ready(_, _, _)
RECURSIVE make_users_ready(_, _, _, _)

make_ready(st, b, irn) ==
    IF sched_n_edges(irn) = 0 THEN st
    ELSE IF b # sched_block(irn) THEN st
    ELSE IF ~operands_ready(st, b, irn) THEN st
    ELSE IF ~to_appear_in_schedule(irn) THEN add_to_sched(st, b, irn)
    ELSE [st EXCEPT !.cands = @ \cup {irn},
                    !.calls = Append(@, selector_call("node_ready", b, irn, {}))]

\* users: the data users of the node followed by the dependent nodes
make_users_ready(st, b, users, i) ==
    IF i > Len(users) THEN st
    ELSE make_users_ready(IF graph.nodes[users[i]].op = "Phi" THEN st
                          ELSE make_ready(st, b, users[i]),
                          b, users, i + 1)

add_to_sched(st, b, irn) ==
    LET st1 == IF to_appear_in_schedule(irn)
               THEN [update_sched_liveness(st, irn) EXCEPT !.sched = Append(@, irn),
                                                           !.cands = @ \ {irn}]
               ELSE st
        st2 == [st1 EXCEPT !.calls = Append(@, selector_call("node_selected", b, irn, {})),
                           !.info[irn].already_sched = TRUE]
    IN make_users_ready(st2, b, out_edges(irn) \o dep_edges(irn), 1)

\* the operands the seeding loop looks at before it meets one of the block
foreign_prefix(irn, b) ==
    LET ops == ins_or_deps(irn)
        local == {j \in DOMAIN ops : sched_block(ops[j]) = b}
    IN IF local = {} THEN ops ELSE SubSeq(ops, 1, Min(local) - 1)

RECURSIVE seed(_, _, _, _)
\* mutant of seed: the phis and the Start node are made ready like the nodes
\* whose operands are all in other blocks
seed_as_ready(st, b, nodes, i) ==
    [st EXCEPT !.cands = {n \in Range(nodes) :
                            /\ to_appear_in_schedule(n)
                            /\ get_irn_n_edges(n) > 0
                            /\ \/ graph.nodes[n].op \in {"Phi", "Start"}
                               \/ Len(foreign_prefix(n, b)) = Len(ins_or_deps(n))}]

\* the loop of list_sched_block over the out edges of the block
seed(st, b, nodes, i) ==
    IF i > Len(nodes) THEN st
    ELSE LET irn == nodes[i]
             op == graph.nodes[irn].op
             users == sched_n_edges(irn)
             st1 == [st EXCEPT !.live = @ \cup Range(foreign_prefix(irn, b))]
         IN seed(IF op = "End" THEN st
                 ELSE IF users = 0 THEN st
                 ELSE IF users = 1 /\ get_irn_n_edges(irn) = 0 THEN st
                 ELSE IF op = "Phi" THEN add_to_sched(st, b, irn)
                 ELSE IF op = "Start" THEN add_to_sched(st, b, irn)
                 ELSE IF Len(foreign_prefix(irn, b)) = Len(ins_or_deps(irn))
                      THEN make_ready(st1, b, irn)
                      ELSE st1,
                 b, nodes, i + 1)

\* mutant of keeps: no node is taken without asking the selector
keeps_none(cs) == {}

\* the members of the ready set the main loop takes without asking the selector
keeps(cs) == {n \in cs : graph.nodes[n].op \in {"Keep", "CopyKeep", "Sync"}}

\* the nodes the main loop may take from the ready set
pickable(cs) == IF keeps(cs) # {} THEN keeps(cs) ELSE cs

\* mutant of fresh_sched_info: the array is not cleared
stale_sched_info == sched_info

\* the sched_info array after the memset of be_list_sched_graph
fresh_sched_info == [n \in Nodes |-> [num_not_sched_user |-> 0, already_sched |-> FALSE]]

\* how often be_list_sched_graph is called at most
MaxRuns == 2

\* be_list_sched_graph up to the block walk
BeginGraph ==
    /\ ls_phase \in {"idle", "done"}
    /\ run < MaxRuns
    /\ run' = run + 1
    /\ sched_info' = fresh_sched_info
    /\ calls' = <<selector_call("init_graph", 0, "", {})>>
    /\ todo' = graph.blocks
    /\ ls_phase' = "walk"
    /\ UNCHANGED <<graph, sched, cands, live, selector, first_run>>
    /\ UNCHANGED other_than_sched

\* list_sched_block up to its main loop
BeginBlock ==
    /\ ls_phase = "walk"
    /\ todo # << >>
    /\ LET b == Head(todo)
           st == seed([sched |-> << >>, info |-> sched_info, cands |-> {}, live |-> {},
                       calls |-> Append(calls, selector_call("init_block", b, "", {}))],
                      b, block_edges(b), 1)
       IN /\ sched' = [sched EXCEPT ![b] = st.sched]
          /\ sched_info' = st.info
          /\ cands' = st.cands
          /\ live' = st.live
          /\ calls' = st.calls
    /\ ls_phase' = "loop"
    /\ UNCHANGED <<graph, run, todo, selector, first_run>>
    /\ UNCHANGED other_than_sched

\* one iteration of the main loop of list_sched_block
ScheduleNode ==
    /\ ls_phase = "loop"
    /\ cands # {}
    /\ \E irn \in pickable(cands) :
          /\ \A c \in selector : c[1] = <<cands, live>> => c[2] = irn
          /\ selector' = selector \cup {<<<<cands, live>>, irn>>}
          /\ LET b == Head(todo)
                 asked == IF irn \in keeps(cands) THEN calls
                          ELSE Append(calls, selector_call("select", b, irn, cands))
                 st == add_to_sched([sched |-> sched[b], info |-> sched_info,
                                     cands |-> cands, live |-> live, calls |-> asked], b, irn)
             IN /\ sched' = [sched EXCEPT ![b] = st.sched]
                /\ sched_info' = st.info
                /\ cands' = st.cands \ {irn}
                /\ live' = st.live
                /\ calls' = st.calls
    /\ UNCHANGED <<graph, ls_phase, run, todo, first_run>>
    /\ UNCHANGED other_than_sched

\* mutant of FinishBlock: finish_block is not called
FinishBlock_silent ==
    /\ ls_phase = "loop"
    /\ cands = {}
    /\ todo' = Tail(todo)
    /\ live' = {}
    /\ ls_phase' = "walk"
    /\ UNCHANGED <<graph, run, sched, sched_info, cands, selector, first_run, calls>>
    /\ UNCHANGED other_than_sched

\* the end of list_sched_block
FinishBlock ==
    /\ ls_phase = "loop"
    /\ cands = {}
    /\ todo' = Tail(todo)
    /\ live' = {}
    /\ calls' = Append(calls, selector_call("finish_block", Head(todo), "", {}))
    /\ ls_phase' = "walk"
    /\ UNCHANGED <<graph, run, sched, sched_info, cands, selector, first_run>>
    /\ UNCHANGED other_than_sched

\* be_list_sched_graph after the block walk
FinishGraph ==
    /\ ls_phase = "walk"
    /\ todo = << >>
    /\ ls_phase' = "done"
    /\ first_run' = IF run = 1 THEN [sched |-> sched, info |-> sched_info] ELSE first_run
    /\ calls' = Append(calls, selector_call("finish_graph", 0, "", {}))
    /\ UNCHANGED <<graph, run, todo, sched, sched_info, cands, live, selector>>
    /\ UNCHANGED other_than_sched

NextSched ==
    \/ BeginGraph
    \/ BeginBlock
    \/ ScheduleNode
    \/ FinishBlock
    \/ FinishGraph

(***************************************************************************)
(*                     CHORDAL REGISTER ALLOCATOR                          *)
(***************************************************************************)
(***************************************************************************)
(* The programs, as they are once pre_process_constraints has put a Perm   *)
(* in front of the constrained instructions (ch_sched is the schedule the  *)
(* walk sees: a Perm is in it from the time handle_constraints came to its *)
(* instruction).  Block 1 dominates block 2,                               *)
(* its only successor.  An instruction has results (defs) and operands     *)
(* (uses); when it has register constraints, out_regs and in_regs give the *)
(* admissible registers of every result and operand; perm names the Perm   *)
(* in front of it.  pre gives the registers assigned before the pass.      *)
(***************************************************************************)
NoReg == -1

Insn(name, defs, uses) ==
    [name |-> name, op |-> "Normal", defs |-> defs, uses |-> uses, has_constraints |-> FALSE,
     out_regs |-> << >>, in_regs |-> << >>, perm |-> ""]

Perm(name, defs, uses) == [Insn(name, defs, uses) EXCEPT !.op = "Perm"]

Phi(name, uses) == [Insn(name, <<name>>, uses) EXCEPT !.op = "Phi"]

Constrained(name, defs, out_regs, uses, in_regs, perm) ==
    [Insn(name, defs, uses) EXCEPT !.has_constraints = TRUE, !.out_regs = out_regs,
                                   !.in_regs = in_regs, !.perm = perm]

CProg(n, allocatable, pre, ignore, b1, b2) ==
    [n_regs |-> n, allocatable |-> allocatable, pre |-> pre, ignore |-> ignore,
     blocks |-> <<b1, b2>>]

\* programs without constraints, pre-assigned registers and ignored values
PlainPrograms ==
    {CProg(3, {0, 1, 2}, << >>, {},
           <<Insn("a", <<"a">>, << >>), Insn("b", <<"b">>, << >>), Insn("s1", << >>, <<"a", "b">>)>>,
           <<Insn("z", <<"z">>, << >>)>>),
     CProg(3, {0, 1, 2}, << >>, {},
           <<Insn("a", <<"a">>, << >>), Insn("x", <<"x">>, << >>), Insn("b", <<"b">>, << >>),
             Insn("c", <<"c">>, << >>), Insn("d", <<"d">>, <<"c">>)>>,
           <<Phi("p", <<"d">>), Insn("e", <<"e">>, <<"a", "b">>), Insn("f", <<"f">>, <<"e", "p">>),
             Insn("s2", << >>, <<"f">>)>>),
     CProg(4, {0, 1, 3}, << >>, {},
           <<Insn("a", <<"a">>, << >>), Insn("b", <<"b">>, << >>), Insn("c", <<"c">>, <<"a">>),
             Insn("d", <<"d">>, <<"a">>)>>,
           <<Insn("e", <<"e">>, <<"b", "c">>), Insn("s2", << >>, <<"e", "d", "b">>)>>),
     CProg(3, {0, 1, 2}, << >>, {},
           <<Insn("a", <<"a">>, << >>), Insn("b", <<"b">>, << >>), Insn("c", <<"c">>, << >>),
             Insn("d", <<"d">>, << >>), Insn("s1", << >>, <<"a", "b", "c", "d">>)>>,
           <<Insn("z", <<"z">>, << >>)>>)}

\* programs with constrained instructions
ConstrainedPrograms ==
    {\* an out operand and an in operand that both want r0, a value living through
     CProg(3, {0, 1, 2}, << >>, {},
           <<Insn("a", <<"a">>, << >>), Insn("b", <<"b">>, << >>), Insn("c", <<"c">>, << >>),
             Perm("P", <<"pa", "pb", "pc">>, <<"a", "b", "c">>),
             Constrained("I", <<"o">>, <<{0}>>, <<"pa", "pb">>, <<{0}, {0, 1, 2}>>, "P")>>,
           <<Insn("s2", << >>, <<"pc", "o">>)>>),
     \* two results, an ignored operand, an operand that lives on, a Perm output nobody uses
     CProg(3, {0, 1, 2}, << >>, {"sp"},
           <<Insn("sp", <<"sp">>, << >>), Insn("a", <<"a">>, << >>), Insn("b", <<"b">>, << >>),
             Insn("d", <<"d">>, << >>), Perm("P", <<"pa", "pb", "pd">>, <<"a", "b", "d">>),
             Constrained("I", <<"o", "o2">>, <<{0, 1}, {0, 1, 2}>>,
                         <<"pa", "sp", "pb">>, <<{1, 2}, {0}, {1}>>, "P"),
             Insn("s1", << >>, <<"o2", "sp">>)>>,
           <<Insn("s2", << >>, <<"pa", "o">>)>>),
     \* the same value is two operands with different admissible registers
     CProg(3, {0, 1, 2}, << >>, {},
           <<Insn("x", <<"x">>, << >>), Perm("P", <<"px">>, <<"x">>),
             Constrained("I", <<"o">>, <<{2}>>, <<"px", "px">>, <<{0, 1}, {1}>>, "P")>>,
           <<Insn("s2", << >>, <<"o">>)>>),
     \* the same, and the result can share a register with the value
     CProg(3, {0, 1, 2}, << >>, {},
           <<Insn("x", <<"x">>, << >>), Perm("P", <<"px">>, <<"x">>),
             Constrained("I", <<"o">>, <<{0, 1, 2}>>, <<"px", "px">>, <<{0, 1}, {2}>>, "P")>>,
           <<Insn("s2", << >>, <<"o">>)>>),
     \* two values that both have to be in r0
     CProg(3, {0, 1, 2}, << >>, {},
           <<Insn("a", <<"a">>, << >>), Insn("b", <<"b">>, << >>),
             Perm("P", <<"pa", "pb">>, <<"a", "b">>),
             Constrained("I", << >>, << >>, <<"pa", "pb">>, <<{0}, {0}>>, "P")>>,
           <<Insn("z", <<"z">>, << >>)>>),
     \* partners whose admissible registers overlap without one holding the other
     CProg(3, {0, 1, 2}, << >>, {},
           <<Insn("a", <<"a">>, << >>), Perm("P", <<"pa">>, <<"a">>),
             Constrained("I", <<"o">>, <<{0, 1}>>, <<"pa">>, <<{1, 2}>>, "P")>>,
           <<Insn("s2", << >>, <<"o">>)>>),
     \* two results: the partner of the first allows less than the result, the
     \* registers of the second and its partner overlap without one holding the other
     CProg(3, {0, 1, 2}, << >>, {},
           <<Insn("a", <<"a">>, << >>), Insn("b", <<"b">>, << >>),
             Perm("P", <<"pa", "pb">>, <<"a", "b">>),
             Constrained("I", <<"o", "o2">>, <<{0, 1}, {0, 2}>>,
                         <<"pa", "pb">>, <<{1}, {1, 2}>>, "P")>>,
           <<Insn("s2", << >>, <<"o", "o2">>)>>)}

\* programs with registers assigned before the pass
PrecoloredPrograms ==
    {\* a result with a register of its own, free when it is defined
     CProg(3, {0, 1, 2}, [v |-> 1], {},
           <<Insn("a", <<"a">>, << >>), Insn("v", <<"v">>, << >>), Insn("b", <<"b">>, <<"a">>)>>,
           <<Insn("s2", << >>, <<"v", "b">>)>>),
     \* a register held by another value when the pre-colored value is defined
     CProg(3, {0, 1, 2}, [v |-> 0], {},
           <<Insn("a", <<"a">>, << >>), Insn("v", <<"v">>, << >>), Insn("s1", << >>, <<"a", "v">>)>>,
           <<Insn("z", <<"z">>, << >>)>>),
     \* the result of a constrained instruction has a register already
     CProg(3, {0, 1, 2}, [o |-> 1], {},
           <<Insn("a", <<"a">>, << >>), Perm("P", <<"pa">>, <<"a">>),
             Constrained("I", <<"o">>, <<{0, 1}>>, <<"pa">>, <<{2}>>, "P")>>,
           <<Insn("s2", << >>, <<"o", "pa">>)>>)}

\* programs with more values at a constrained instruction than the class has registers
CrowdedPrograms ==
    {\* never more than three values live, but four operands to match: the result
     \* wants r0, two operands that end at I want r1 and r2, a third operand lives on
     CProg(3, {0, 1, 2}, << >>, {},
           <<Insn("a", <<"a">>, << >>), Insn("b", <<"b">>, << >>), Insn("c", <<"c">>, << >>),
             Perm("P", <<"pa", "pb", "pc">>, <<"a", "b", "c">>),
             Constrained("I", <<"o">>, <<{0}>>, <<"pa", "pb", "pc">>,
                         <<{1}, {2}, {0, 1, 2}>>, "P")>>,
           <<Insn("s2", << >>, <<"o", "pc">>)>>),
     \* a result, an operand that lives on and two more values that live through
     CProg(3, {0, 1, 2}, << >>, {},
           <<Insn("a", <<"a">>, << >>), Insn("b", <<"b">>, << >>), Insn("c", <<"c">>, << >>),
             Perm("P", <<"pa", "pb", "pc">>, <<"a", "b", "c">>),
             Constrained("I", <<"o">>, <<{0}>>, <<"pa">>, <<{1}>>, "P")>>,
           <<Insn("s2", << >>, <<"o", "pa", "pb", "pc">>)>>),
     \* as many values as registers: a result, an operand and a value that live on
     CProg(3, {0, 1, 2}, << >>, {},
           <<Insn("a", <<"a">>, << >>), Insn("b", <<"b">>, << >>),
             Perm("P", <<"pa", "pb">>, <<"a", "b">>),
             Constrained("I", <<"o">>, <<{0}>>, <<"pa">>, <<{1}>>, "P")>>,
           <<Insn("s2", << >>, <<"o", "pa", "pb">>)>>)}

ChordalPrograms ==
    PlainPrograms \cup ConstrainedPrograms \cup PrecoloredPrograms \cup CrowdedPrograms

(***************************************************************************)
(* What be_scan_insn, the liveness and create_borders tell about cprog.    *)
(***************************************************************************)
ChordalBlocks == {1, 2}

\* arch_irn_consider_in_reg_alloc(env->cls, irn)
has_reg_class(v) == v \notin cprog.ignore

\* the values of the class live at the end of block b
ch_live_out(b) ==
    IF b = 2 THEN {}
    ELSE LET blk == cprog.blocks[2]
             defd == UNION {Range(blk[i].defs) : i \in DOMAIN blk}
             usedv == UNION {Range(blk[i].uses) : i \in {j \in DOMAIN blk : blk[j].op # "Phi"}}
             args == UNION {Range(blk[i].uses) : i \in {j \in DOMAIN blk : blk[j].op = "Phi"}}
         IN {v \in (usedv \ defd) \cup args : has_reg_class(v)}

\* the values of the class live at the start of block b
ch_live_in(b) ==
    IF b = 1 THEN {}
    ELSE LET blk == cprog.blocks[2]
             defd == UNION {Range(blk[i].defs) : i \in DOMAIN blk}
             usedv == UNION {Range(blk[i].uses) : i \in {j \in DOMAIN blk : blk[j].op # "Phi"}}
         IN {v \in usedv \ defd : has_reg_class(v)}

\* v is live behind instruction i of block b
live_after(b, i, v) ==
    \/ v \in ch_live_out(b)
    \/ \E j \in DOMAIN cprog.blocks[b] :
          j > i /\ cprog.blocks[b][j].op # "Phi" /\ v \in Range(cprog.blocks[b][j].uses)

\* a sequence holding the elements of the set S of strings, in the order of seq
SetToSeq(seq, S) ==
    SelectSeq(seq, LAMBDA v : v \in S)

RECURSIVE Dedup(_)
Dedup(seq) ==
    IF seq = << >> THEN << >>
    ELSE LET rest == Dedup(SubSeq(seq, 1, Len(seq) - 1))
         IN IF seq[Len(seq)] \in Range(rest) THEN rest ELSE Append(rest, seq[Len(seq)])

Event(is_def, irn) == [is_def |-> is_def, irn |-> irn]

\* all values of the program in the order of their definition
AllValues == 
    LET all == cprog.blocks[1] \o cprog.blocks[2]
        F[i \in 0..Len(all)] == IF i = 0 THEN << >> ELSE F[i - 1] \o all[i].defs
    IN F[Len(all)]

\* the border list of block b in the order foreach_border_head walks it
create_borders(b) ==
    LET blk == cprog.blocks[b]
        ins(i) == IF blk[i].op = "Phi" THEN << >>
                  ELSE SelectSeq(Dedup(blk[i].uses),
                                 LAMBDA v : has_reg_class(v) /\ ~live_after(b, i, v))
        defs(i) == SelectSeq(blk[i].defs, has_reg_class)
        dead(i) == SelectSeq(defs(i), LAMBDA v : ~live_after(b, i, v))
        ev(seq, is_def) == [k \in DOMAIN seq |-> Event(is_def, seq[k])]
        F[i \in 0..Len(blk)] ==
            IF i = 0 THEN ev(SetToSeq(AllValues, ch_live_in(b)), TRUE)
            ELSE F[i - 1] \o ev(ins(i), FALSE) \o ev(defs(i), TRUE) \o ev(dead(i), FALSE)
    IN F[Len(blk)] \o ev(SetToSeq(AllValues, ch_live_out(b)), FALSE)

\* the operands be_scan_insn finds: the results, then the uses
scan_ops(insn) ==
    LET outs == [k \in DOMAIN insn.defs |->
                    [carrier |-> insn.defs[k], regs |-> insn.out_regs[k], out |-> TRUE]]
        ins == [k \in DOMAIN insn.uses |->
                    [carrier |-> insn.uses[k], regs |-> insn.in_regs[k], out |-> FALSE]]
    IN SelectSeq(outs \o ins, LAMBDA o : has_reg_class(o.carrier))

(***************************************************************************)
(* handle_constraints.                                                     *)
(***************************************************************************)
\* mutant of get_next_free_reg: the registers in use are not looked at
get_next_free_reg_any(cols) == Min(cprog.allocatable)

\* mutant of get_next_free_reg: the highest free register
get_next_free_reg_highest(cols) ==
    IF cprog.allocatable \ cols = {} THEN NoReg ELSE 0 - Min({0 - r : r \in cprog.allocatable \ cols})

\* mutant of get_next_free_reg: the lowest register when none is free
get_next_free_reg_reuse(cols) ==
    IF cprog.allocatable \ cols = {} THEN Min(cprog.allocatable) ELSE Min(cprog.allocatable \ cols)

\* the lowest allocatable register not in cols; NoReg when there is none
get_next_free_reg(cols) ==
    IF cprog.allocatable \ cols = {} THEN NoReg ELSE Min(cprog.allocatable \ cols)

\* every bit set in lhs is set in rhs
bitset_contains(lhs, rhs) == lhs \subseteq rhs

\* mutant of get_decisive_partner_regs: the registers of the partner are not looked at
get_decisive_partner_regs_own(ops, partner, i) == ops[i].regs

\* mutant of get_decisive_partner_regs: the registers of the partner, whatever
\* the operand allows
get_decisive_partner_regs_partner(ops, partner, i) ==
    IF partner[i] = 0 THEN ops[i].regs ELSE ops[partner[i]].regs

\* the registers of operand i and its partner; {} stands for NULL
get_decisive_partner_regs(ops, partner, i) ==
    IF partner[i] = 0 \/ bitset_contains(ops[i].regs, ops[partner[i]].regs) THEN ops[i].regs
    ELSE IF bitset_contains(ops[partner[i]].regs, ops[i].regs) THEN ops[partner[i]].regs
    ELSE {}

\* mutant of pair_up_operands: the first in operand with a register in common,
\* whatever partner it has and however many registers it admits
pair_up_operands_first(b, idx, ops) ==
    [j \in DOMAIN ops |->
        LET fits == {i \in DOMAIN ops : /\ ~ops[i].out
                                        /\ ~live_after(b, idx, ops[i].carrier)
                                        /\ ops[i].regs \cap ops[j].regs # {}}
            outs == {i \in DOMAIN ops : /\ ops[i].out
                                        /\ ops[i].regs \cap ops[j].regs # {}}
        IN IF ops[j].out THEN (IF fits = {} THEN 0 ELSE Min(fits))
           ELSE IF live_after(b, idx, ops[j].carrier) \/ outs = {} THEN 0 ELSE Min(outs)]

\* partner[i] is the operand that is the partner of operand i, 0 when it has none
pair_up_operands(b, idx, ops) ==
    LET use_start == Cardinality({i \in DOMAIN ops : ops[i].out}) + 1
        uses == use_start..Len(ops)
        step(partner, j) ==
            LET fits == {i \in uses : /\ partner[i] = 0
                                      /\ ~live_after(b, idx, ops[i].carrier)
                                      /\ ops[i].regs \cap ops[j].regs # {}}
                n_total(i) == Cardinality(ops[i].regs)
                smallest == Min({i \in fits : \A k \in fits : n_total(i) <= n_total(k)})
            IN IF fits = {} THEN partner
               ELSE [i \in DOMAIN ops |->
                        IF i = j THEN smallest
                        ELSE IF i \in uses /\ ops[i].carrier = ops[smallest].carrier THEN j
                        ELSE partner[i]]
        F[j \in 0..(use_start - 1)] ==
            IF j = 0 THEN [i \in DOMAIN ops |-> 0] ELSE step(F[j - 1], j)
    IN F[use_start - 1]

\* the left nodes of the bipartite graph: alloc_nodes, their edges, the partners map
\* and, for the properties, alloc_ops: the operand every left node was made for (0
\* for a Proj that lives through)
\* (a function from the carriers entered to their partner, "" for NULL); overflow:
\* the assertion n_alloc < n_regs of the loop over the Projs failed; overrun: the
\* loop over the operands wrote behind the n_regs places of alloc_nodes
left_nodes(b, idx, insn, ops, partner) ==
    LET put(m, k, v) == [x \in DOMAIN m \cup {k} |-> IF x = k THEN v ELSE m[x]]
        operand(st, i) ==
            LET pc == IF partner[i] = 0 THEN "" ELSE ops[partner[i]].carrier
                m1 == put(st.partners, ops[i].carrier, pc)
                m2 == IF pc = "" THEN m1 ELSE put(m1, pc, ops[i].carrier)
            IN IF pc # "" /\ pc \in DOMAIN st.partners THEN st
               ELSE IF ops[i].carrier \in Range(st.alloc_nodes) THEN [st EXCEPT !.partners = m2]
               ELSE [st EXCEPT !.partners = m2,
                               !.alloc_nodes = Append(@, ops[i].carrier),
                               !.alloc_ops = Append(@, i),
                               !.edges = Append(@, get_decisive_partner_regs(ops, partner, i))]
        F[i \in 0..Len(ops)] ==
            IF i = 0 THEN [partners |-> << >>, alloc_nodes |-> << >>, alloc_ops |-> << >>,
                           edges |-> << >>,
                           overflow |-> FALSE, overrun |-> FALSE]
            ELSE operand(F[i - 1], i)
        projs == IF insn.perm = "" THEN << >>
                 ELSE (CHOOSE p \in Range(cprog.blocks[b]) : p.name = insn.perm).defs
        through(st, k) ==
            IF ~live_after(b, idx, projs[k]) \/ projs[k] \in DOMAIN st.partners THEN st
            ELSE IF projs[k] \in Range(st.alloc_nodes) THEN st
            ELSE IF Len(st.alloc_nodes) >= cprog.n_regs THEN [st EXCEPT !.overflow = TRUE]
            ELSE [st EXCEPT !.partners = put(@, projs[k], ""),
                            !.alloc_nodes = Append(@, projs[k]),
                            !.alloc_ops = Append(@, 0),
                            !.edges = Append(@, cprog.allocatable)]
        G[k \in 0..Len(projs)] == IF k = 0 THEN F[Len(ops)] ELSE through(G[k - 1], k)
    IN [G[Len(projs)] EXCEPT !.overrun = Len(F[Len(ops)].alloc_nodes) > cprog.n_regs]

\* what bipartite_matching may deliver when every left node gets a register
matchings(edges) ==
    {f \in [DOMAIN edges -> 0..(cprog.n_regs - 1)] :
        /\ \A i \in DOMAIN edges : f[i] \in edges[i]
        /\ \A i, j \in DOMAIN edges : f[i] = f[j] => i = j}

\* the registers after the colors of the matching were assigned
assign_matching(regs, nodes, assignment) ==
    LET F[i \in 0..Len(nodes.alloc_nodes)] ==
           IF i = 0 THEN regs
           ELSE LET irn == nodes.alloc_nodes[i]
                    partner == nodes.partners[irn]
                IN [v \in DOMAIN regs |->
                       IF v = irn \/ (partner # "" /\ v = partner) THEN assignment[i]
                       ELSE F[i - 1][v]]
    IN F[Len(nodes.alloc_nodes)]

\* mutant of fill_in_perm: the highest allocatable register, whoever has it
fill_in_perm_highest(regs, projs) ==
    [v \in DOMAIN regs |->
        IF v \in Range(projs) /\ regs[v] = NoReg
        THEN CHOOSE r \in cprog.allocatable : \A s \in cprog.allocatable : s <= r
        ELSE regs[v]]

\* the registers after the Projs of the Perm without a register got one
\* (NoReg for a Proj when no register is free)
fill_in_perm(regs, projs) ==
    LET F[k \in 0..Len(projs)] ==
           IF k = 0 THEN regs
           ELSE IF F[k - 1][projs[k]] # NoReg THEN F[k - 1]
           ELSE [F[k - 1] EXCEPT ![projs[k]] =
                    get_next_free_reg({F[k - 1][projs[j]] : j \in DOMAIN projs} \ {NoReg})]
    IN F[Len(projs)]

(***************************************************************************)
(* The walks of be_ra_chordal_color.  ch_pc is <<block, index>>: in phase  *)
(* "constraints" the instruction handle_constraints comes to next, in      *)
(* phase "assign" the border assign comes to next (0: assign has not       *)
(* entered the block yet).                                                 *)
(***************************************************************************)
NoInsn == [name |-> "", ops |-> << >>, partner |-> << >>, alloc_nodes |-> << >>,
           alloc_ops |-> << >>,
           edges |-> << >>, asserted |-> FALSE, projs |-> << >>, before |-> << >>]

NoDef == [irn |-> "", col |-> NoReg, at |-> <<0, 0>>, fresh |-> FALSE]

\* the position behind <<b, i>> in the walk over the blocks
ch_next(b, i, len) ==
    IF i < len THEN <<b, i + 1>> ELSE IF b = 1 THEN <<2, 0>> ELSE <<3, 0>>

\* the Perms pre_process_constraints puts into block b
inserted_perms(b) == {cprog.blocks[b][i].perm : i \in DOMAIN cprog.blocks[b]} \ {""}

\* the schedule of block b before the pass
sched_at_start(b) ==
    LET blk == SelectSeq(cprog.blocks[b], LAMBDA insn : insn.name \notin inserted_perms(b))
    IN [i \in DOMAIN blk |-> blk[i].name]

\* the place in cprog.blocks[b] of the instruction of that name
insn_index(b, name) == CHOOSE i \in DOMAIN cprog.blocks[b] : cprog.blocks[b][i].name = name

\* the place of name in the schedule s
sched_pos(s, name) == CHOOSE k \in DOMAIN s : s[k] = name

\* sched_add_before: the schedule s with new in front of name
sched_add_before(s, name, new) ==
    SubSeq(s, 1, sched_pos(s, name) - 1) \o <<new>> \o SubSeq(s, sched_pos(s, name), Len(s))

\* mutant of constraints_next: the walk goes over the block with the Perms in it
constraints_next_final(s, b, idx) == ch_next(b, idx, Len(cprog.blocks[b]))

\* where the walk of constraints() goes from place idx of block b (0: from the
\* block's head), s being the schedule of the block: sched_first, or the
\* sched_next it takes before it calls handle_constraints
constraints_next(s, b, idx) ==
    LET k == IF idx = 0 THEN 0 ELSE sched_pos(s, cprog.blocks[b][idx].name)
    IN IF k < Len(s) THEN <<b, insn_index(b, s[k + 1])>> ELSE ch_next(b, 0, 0)

\* constraints(): handle_constraints for the next instruction of the schedule
HandleConstraints ==
    /\ ch_phase = "constraints"
    /\ ch_pc[1] \in ChordalBlocks
    /\ LET b == ch_pc[1]
           idx == ch_pc[2]
           blk == cprog.blocks[b]
       IN IF idx = 0 \/ idx > Len(blk)
          THEN /\ ch_pc' = constraints_next(ch_sched[b], b, 0)
               /\ UNCHANGED <<ch_phase, reg, last_insn, ch_sched, handled>>
          ELSE LET insn == blk[idx]
                   ops == scan_ops(insn)
                   partner == pair_up_operands(b, idx, ops)
                   nodes == left_nodes(b, idx, insn, ops, partner)
                   projs == IF insn.perm = "" THEN << >>
                            ELSE (CHOOSE p \in Range(blk) : p.name = insn.perm).defs
                   seen == [name |-> insn.name, ops |-> ops, partner |-> partner,
                            alloc_nodes |-> nodes.alloc_nodes,
                            alloc_ops |-> nodes.alloc_ops, edges |-> nodes.edges,
                            asserted |-> nodes.overflow, projs |-> projs, before |-> reg]
               IN /\ ch_pc' = constraints_next(ch_sched[b], b, idx)
                  /\ handled' = Append(handled, insn.name)
                  /\ IF ~insn.has_constraints \/ insn.op = "Phi"
                     THEN UNCHANGED <<ch_phase, reg, last_insn, ch_sched>>
                     ELSE /\ last_insn' = seen
                          /\ ch_sched' = IF insn.perm = "" THEN ch_sched
                                         ELSE [ch_sched EXCEPT ![b] =
                                                  sched_add_before(@, insn.name, insn.perm)]
                          /\ IF nodes.overrun
                             THEN ch_phase' \in {"abort", "corrupt"} /\ UNCHANGED reg
                             ELSE IF nodes.overflow \/ matchings(nodes.edges) = {}
                             THEN ch_phase' = "abort" /\ UNCHANGED reg
                             ELSE \E assignment \in matchings(nodes.edges) :
                                     LET filled == fill_in_perm(
                                            assign_matching(reg, nodes, assignment), projs)
                                     IN IF \E k \in DOMAIN projs : filled[projs[k]] = NoReg
                                        THEN ch_phase' = "abort" /\ UNCHANGED reg
                                        ELSE reg' = filled /\ UNCHANGED ch_phase
    /\ UNCHANGED <<cprog, colors, alloc_live, borders, last_def>>
    /\ UNCHANGED other_than_chordal

\* the walk with create_borders
CreateBorders ==
    /\ ch_phase = "constraints"
    /\ ch_pc[1] \notin ChordalBlocks
    /\ borders' = [b \in ChordalBlocks |-> create_borders(b)]
    /\ ch_phase' = "assign"
    /\ ch_pc' = <<1, 0>>
    /\ UNCHANGED <<cprog, reg, colors, alloc_live, last_insn, last_def, ch_sched, handled>>
    /\ UNCHANGED other_than_chordal

\* assign(): the start of a block, the values live in
AssignBlock ==
    /\ ch_phase = "assign"
    /\ ch_pc[1] \in ChordalBlocks
    /\ ch_pc[2] = 0
    /\ LET b == ch_pc[1]
       IN IF \E v \in ch_live_in(b) : reg[v] = NoReg
          THEN ch_phase' = "abort" /\ UNCHANGED <<colors, alloc_live, ch_pc>>
          ELSE /\ colors' = {reg[v] : v \in ch_live_in(b)}
               /\ alloc_live' = ch_live_in(b)
               /\ ch_pc' = IF borders[b] = << >> THEN ch_next(b, 0, 0) ELSE <<b, 1>>
               /\ UNCHANGED ch_phase
    /\ UNCHANGED <<cprog, reg, borders, last_insn, last_def, ch_sched, handled>>
    /\ UNCHANGED other_than_chordal

\* the assertion idx < cls->n_regs of arch_register_for_index
valid_register_index(col) == col \in 0..(cprog.n_regs - 1)

\* mutant of pre_colored_register_free: the register is not looked at
pre_colored_register_unchecked(irn) == TRUE

\* the assertion "pre-colored register must be free"
pre_colored_register_free(irn) == reg[irn] \notin colors

\* assign(): one border of the block
AssignBorder ==
    /\ ch_phase = "assign"
    /\ ch_pc[1] \in ChordalBlocks
    /\ ch_pc[2] > 0
    /\ LET b == ch_pc[1]
           border == borders[b][ch_pc[2]]
           irn == border.irn
           col == IF reg[irn] # NoReg THEN reg[irn] ELSE get_next_free_reg(colors)
           step == ch_next(b, ch_pc[2], Len(borders[b]))
       IN IF ~border.is_def
          THEN IF reg[irn] = NoReg
               THEN ch_phase' = "abort" /\ UNCHANGED <<reg, colors, alloc_live, ch_pc, last_def>>
               ELSE /\ colors' = colors \ {reg[irn]}
                    /\ alloc_live' = alloc_live \ {irn}
                    /\ ch_pc' = step
                    /\ UNCHANGED <<ch_phase, reg, last_def>>
          ELSE IF irn \in ch_live_in(b)
          THEN ch_pc' = step /\ UNCHANGED <<ch_phase, reg, colors, alloc_live, last_def>>
          ELSE IF \/ (reg[irn] # NoReg /\ ~pre_colored_register_free(irn))
                  \/ ~valid_register_index(col)
                  \/ irn \in alloc_live
          THEN ch_phase' = "abort" /\ UNCHANGED <<reg, colors, alloc_live, ch_pc, last_def>>
          ELSE /\ reg' = [reg EXCEPT ![irn] = col]
               /\ colors' = colors \cup {col}
               /\ alloc_live' = alloc_live \cup {irn}
               /\ last_def' = [irn |-> irn, col |-> col, fresh |-> reg[irn] = NoReg, at |-> ch_pc]
               /\ ch_pc' = step
               /\ UNCHANGED ch_phase
    /\ UNCHANGED <<cprog, borders, last_insn, ch_sched, handled>>
    /\ UNCHANGED other_than_chordal

\* be_ra_chordal_color returns
ChordalDone ==
    /\ ch_phase = "assign"
    /\ ch_pc[1] \notin ChordalBlocks
    /\ ch_phase' = "done"
    /\ UNCHANGED <<cprog, ch_pc, reg, colors, alloc_live, borders, last_insn, last_def,
                   ch_sched, handled>>
    /\ UNCHANGED other_than_chordal

NextChordal ==
    \/ HandleConstraints
    \/ CreateBorders
    \/ AssignBlock
    \/ AssignBorder
    \/ ChordalDone

\* the chordal allocator is not running
ChordalIdle ==
    /\ cprog = CProg(0, {}, << >>, {}, << >>, << >>)
    /\ ch_phase = "off"
    /\ ch_pc = <<0, 0>>
    /\ reg = << >>
    /\ colors = {}
    /\ alloc_live = {}
    /\ borders = << >>
    /\ last_insn = NoInsn
    /\ last_def = NoDef
    /\ ch_sched = << >>
    /\ handled = << >>

(***************************************************************************)
(*                           SPECIFICATIONS                                *)
(***************************************************************************)
vars == <<belady_vars, sched_vars, chordal_vars>>

InitBelady ==
    /\ prog \in Programs
    /\ bel_phase = "walk"
    /\ stack = << >>
    /\ has_info = {}
    /\ has_end = {}
    /\ ws_start = [b \in BelBlocks |-> << >>]
    /\ ws_end = [b \in BelBlocks |-> << >>]
    /\ ws = << >>
    /\ used = {}
    /\ instr_nr = 0
    /\ reloads = {}
    /\ edge_reloads = {}
    /\ spilled_phis = {}
    /\ fixed = {}
    /\ last_displace = NoDisplace
    /\ SchedIdle
    /\ ChordalIdle

InitSched ==
    /\ graph \in Graphs
    /\ ls_phase = "idle"
    /\ run = 0
    /\ todo = << >>
    /\ sched = [b \in SchedBlocks |-> << >>]
    /\ sched_info = [n \in Nodes |-> [num_not_sched_user |-> 0, already_sched |-> FALSE]]
    /\ cands = {}
    /\ live = {}
    /\ selector = {}
    /\ first_run = [sched |-> sched, info |-> sched_info]
    /\ calls = << >>
    /\ BeladyIdle
    /\ ChordalIdle

InitChordal ==
    /\ cprog \in ChordalPrograms
    /\ ch_phase = "constraints"
    /\ ch_pc = <<1, 0>>
    /\ reg = [v \in Range(AllValues) |-> IF v \in DOMAIN cprog.pre THEN cprog.pre[v] ELSE NoReg]
    /\ colors = {}
    /\ alloc_live = {}
    /\ borders = [b \in ChordalBlocks |-> << >>]
    /\ last_insn = NoInsn
    /\ last_def = NoDef
    /\ ch_sched = [b \in ChordalBlocks |-> sched_at_start(b)]
    /\ handled = << >>
    /\ BeladyIdle
    /\ SchedIdle

SpecBelady == InitBelady /\ [][NextBelady]_vars

SpecSched == InitSched /\ [][NextSched]_vars

SpecChordal == InitChordal /\ [][NextChordal]_vars

(***************************************************************************)
(* Claims about the Belady spill chooser (checked under SpecBelady).       *)
(***************************************************************************)
\* C1: the main workset never holds more than k = n_regs values, after every
\* use-displace and every def-displace, and neither does any stored ws_start
\* or ws_end.
C1_WorksetBound ==
    /\ Len(ws) <= n_regs
    /\ \A b \in BelBlocks : Len(ws_start[b]) <= n_regs /\ Len(ws_end[b]) <= n_regs

\* a displace that had to dispose of a value and left the workset full, with
\* a full start workset and a full end workset stored
C1_Witness ==
    /\ Len(last_displace.evicted) > 0
    /\ Len(ws) = n_regs
    /\ \E b \in BelBlocks : Len(ws_start[b]) = n_regs
    /\ \E b \in BelBlocks : Len(ws_end[b]) = n_regs

\* C2: after the pass, with the reloads placed where it asked for them, at
\* most k values of the class are live in registers at every program point
\* (stated for the programs without values flagged dont_spill).
C2_PressureBound ==
    (bel_phase = "done" /\ prog.dont_spill = {}) => PressureOK(n_regs)

\* every class value an instruction uses that was not in the workset when the
\* use-displace of the instruction began has a reload requested there
ReloadAtUse ==
    last_displace.is_usage =>
        \A v \in Range(Ins(last_displace.instr)) \cap ClassValues :
            ~workset_contains(last_displace.before, v)
                => <<v, last_displace.instr>> \in reloads

\* C8 as stated: a reload for every use of a value outside the workset, and
\* for every block, predecessor edge and value of the final ws_start the
\* (phi-translated) value is in the predecessor's ws_end or reloaded on the edge.
C8_ReloadCoverage ==
    /\ ReloadAtUse
    /\ bel_phase \in {"insert", "done"} =>
         \A b \in BelBlocks : \A i \in DOMAIN Preds(b) : \A v \in Range(ws_start[b]) :
            \/ workset_contains(ws_end[Preds(b)[i]], EdgeValue(b, i, v))
            \/ <<EdgeValue(b, i, v), b, i>> \in edge_reloads

\* C8 amended: the same, except that nothing is asked for an Unknown
\* ("Unknowns are available everywhere").
C8_ReloadCoverageAmended ==
    /\ ReloadAtUse
    /\ bel_phase \in {"insert", "done"} =>
         \A b \in BelBlocks : \A i \in DOMAIN Preds(b) : \A v \in Range(ws_start[b]) :
            \/ NodeOp(EdgeValue(b, i, v)) = "Unknown"
            \/ workset_contains(ws_end[Preds(b)[i]], EdgeValue(b, i, v))
            \/ <<EdgeValue(b, i, v), b, i>> \in edge_reloads

\* the pass is through, it asked for reloads at instructions and on edges, a
\* phi with an Unknown operand stayed in its block's start workset
C8_Witness ==
    /\ bel_phase = "done"
    /\ reloads # {}
    /\ edge_reloads # {}
    /\ \E b \in BelBlocks : \E v \in Range(ws_start[b]) : \E i \in DOMAIN Preds(b) :
          NodeOp(EdgeValue(b, i, v)) = "Unknown"

\* C17: once fix_block_borders has run for a block B, a reload of w is asked for
\* on the edge from predecessor i exactly when w stands for a member v of B's
\* start workset (operand i of v when v is a phi of B, v itself otherwise), w
\* is not an Unknown and w is not in the end workset of the predecessor;
\* nothing is asked for a block before that; fix_block_borders leaves the start
\* and end worksets as they are.
C17_EdgeReloadExact ==
    /\ [](\A B \in BelBlocks : \A i \in DOMAIN Preds(B) : \A w \in ClassValues :
            <<w, B, i>> \in edge_reloads <=>
                /\ B \in fixed
                /\ NodeOp(w) # "Unknown"
                /\ w \notin Range(ws_end[Preds(B)[i]])
                /\ \E v \in Range(ws_start[B]) :
                      w = IF is_Phi(v) /\ get_nodes_block(v) = B THEN Ins(v)[i] ELSE v)
    /\ [](\A r \in edge_reloads :
            r[1] \in ClassValues /\ r[2] \in BelBlocks /\ r[3] \in DOMAIN Preds(r[2]))
    /\ [][bel_phase = "fix" => (ws_start' = ws_start /\ ws_end' = ws_end)]_vars

\* the join block is done: a phi of it is in its start workset, one operand of
\* the phi is in the end workset of its predecessor and no reload is asked for
\* it, another operand is not and is reloaded on its edge, the phi itself is not
C17_Witness ==
    /\ 4 \in fixed
    /\ \E ph \in Range(ws_start[4]) :
          /\ is_Phi(ph) /\ get_nodes_block(ph) = 4
          /\ \E i, j \in DOMAIN Preds(4) :
                /\ Ins(ph)[i] \in Range(ws_end[Preds(4)[i]])
                /\ <<Ins(ph)[i], 4, i>> \notin edge_reloads
                /\ <<Ins(ph)[j], 4, j>> \in edge_reloads
          /\ \A i \in DOMAIN Preds(4) : <<ph, 4, i>> \notin edge_reloads

\* C18: the workset, new_vals and every start and end workset hold values of
\* the register class that are not ignored, nothing else; workset_insert of any
\* other node leaves a workset as it is.
C18_OnlyClassValues ==
    /\ Range(ws) \subseteq ClassValues
    /\ Range(last_displace.new_vals) \subseteq ClassValues
    /\ Range(last_displace.after) \subseteq ClassValues
    /\ \A b \in DOMAIN ws_start : Range(ws_start[b]) \subseteq ClassValues
    /\ \A b \in DOMAIN ws_end : Range(ws_end[b]) \subseteq ClassValues
    /\ \A val \in AllScheduled \ ClassValues :
          /\ workset_insert(ws, val) = ws
          /\ workset_insert(last_displace.new_vals, val) = last_displace.new_vals
          /\ \A b \in DOMAIN ws_start : workset_insert(ws_start[b], val) = ws_start[b]

\* the use-displace of an instruction that has the ignored value sp and a value
\* of the class as operands: new_vals holds the value of the class only
C18_Witness ==
    /\ last_displace.is_usage
    /\ "sp" \in Range(Ins(last_displace.instr))
    /\ last_displace.new_vals # << >>
    /\ "sp" \notin Range(last_displace.new_vals)
    /\ ws # << >>

\* the number of values of new_vals the workset did not hold
displace_demand ==
    Cardinality(Range(last_displace.new_vals) \ Range(last_displace.before))

\* C19: a displace disposes of exactly max(0, |ws| - (k - demand)) members of
\* the workset; the members that stay are the others, and each of them has a
\* time (the distance the displace computed) that is not greater than the time
\* of any member disposed of; the values of new_vals the workset did not hold
\* join the members that stay.
C19_FarthestEvicted ==
    last_displace.instr # "" =>
        LET gone == Range(last_displace.evicted)
            stay == Range(last_displace.before) \ gone
            excess == Len(last_displace.before) - (n_regs - displace_demand)
        IN /\ Cardinality(gone) = IF excess > 0 THEN excess ELSE 0
           /\ Len(last_displace.evicted) = Cardinality(gone)
           /\ gone \subseteq Range(last_displace.before)
           /\ Range(last_displace.after) =
                 stay \cup (Range(last_displace.new_vals) \ Range(last_displace.before))
           /\ \A u \in stay : \A e \in gone :
                 last_displace.time[u] <= last_displace.time[e]

\* a displace disposed of a value and kept another one whose next use is nearer
C19_Witness ==
    /\ Len(last_displace.evicted) >= 1
    /\ \E u \in Range(last_displace.before) \ Range(last_displace.evicted) :
          \E e \in Range(last_displace.evicted) :
              last_displace.time[u] < last_displace.time[e]

\* the times of the last displace are the distances get_distance gives with the
\* uses of the current instruction skipped (skip) or not
times_with(skip) ==
    \A v \in DOMAIN last_displace.time :
        last_displace.time[v] =
            IF v \in prog.dont_spill THEN 0
            ELSE be_get_next_use(last_displace.blk, last_displace.pos, v, skip)

\* C20 as stated: the uses at the current instruction are skipped when the
\* displace is for the operands of the instruction and counted when it is for
\* its results.
C20_SkipOnUse ==
    times_with(last_displace.is_usage)

\* C20 amended: the uses at the current instruction are counted when the
\* displace is for the operands of the instruction (is_usage) and skipped when
\* it is for its results.
C20_SkipOnDef ==
    times_with(~last_displace.is_usage)

\* a use-displace made room: a member of the workset that the instruction uses,
\* and not again in its block, got the time 0
C20_Witness ==
    /\ last_displace.is_usage
    /\ \E v \in DOMAIN last_displace.time :
          /\ v \notin prog.dont_spill
          /\ v \in Range(Ins(last_displace.instr))
          /\ last_displace.time[v] = 0
          /\ be_get_next_use(last_displace.blk, last_displace.pos, v, TRUE) > 0

\* C21: of the values a displace disposes of, those not used so far in the
\* block are removed from the start workset of the block and, when they are
\* phis of this block and only then, marked for spilling; for those already
\* used the start workset stays as it is and no phi is marked.
C21_DumbEviction ==
    [][last_displace' # last_displace =>
         LET d == last_displace'
             dumb == Range(d.evicted) \ used'
         IN /\ Range(ws_start'[d.blk]) = Range(ws_start[d.blk]) \ dumb
            /\ \A b \in BelBlocks \ {d.blk} : ws_start'[b] = ws_start[b]
            /\ spilled_phis' \ spilled_phis \subseteq dumb
            /\ \A v \in dumb \ spilled_phis :
                  v \in spilled_phis' <=> (is_Phi(v) /\ get_nodes_block(v) = d.blk)]_vars

\* the walk of block b is about to handle its first instruction: ws_start[b]
\* is the start workset compute_block_start_info made
at_block_start(b) ==
    /\ bel_phase = "walk"
    /\ stack # << >>
    /\ Top.blk = b
    /\ Top = Advance(b, 0)

\* the candidates of the start workset of block b and their distance from the
\* start of the block
start_candidates(b) == PhisOf(b) \cup (LiveIn(b) \cap ClassValues)

start_distance(b, v) ==
    IF v \in prog.dont_spill THEN 0 ELSE be_get_next_use(b, 1, v, FALSE)

\* C22: the start workset made for the start block or for a block that does
\* not have exactly one predecessor holds min(k, count) of the count
\* candidates (the phis of the block and its live-ins, of the class), and no
\* candidate left out has a smaller distance from the start of the block than
\* a member.
C22_StartSetBest ==
    \A b \in BelBlocks :
        (at_block_start(b) /\ (b = StartBlock \/ Len(Preds(b)) # 1)) =>
            LET cand == start_candidates(b)
                chosen == Range(ws_start[b])
                count == Cardinality(cand)
            IN /\ chosen \subseteq cand
               /\ Len(ws_start[b]) = Cardinality(chosen)
               /\ Cardinality(chosen) = IF count < n_regs THEN count ELSE n_regs
               /\ \A u \in chosen : \A w \in cand \ chosen :
                     start_distance(b, u) <= start_distance(b, w)

\* the join block starts with k of more than k candidates, a phi of the block
\* among the members, and a candidate left out is strictly farther than a member
C22_Witness ==
    /\ at_block_start(4)
    /\ Cardinality(start_candidates(4)) > n_regs
    /\ Len(ws_start[4]) = n_regs
    /\ PhisOf(4) \cap Range(ws_start[4]) # {}
    /\ \E u \in Range(ws_start[4]) : \E w \in start_candidates(4) \ Range(ws_start[4]) :
          start_distance(4, u) < start_distance(4, w)

\* the blocks that have an activation of belady()
on_stack == {stack[i].blk : i \in DOMAIN stack}

\* C23: a block B other than the start block with one predecessor P starts
\* with a copy of the end workset of P, which P's walk has completed by then;
\* a block is entered only while it has no block info, gets its block info
\* with its first step and its end workset once, so every block is walked
\* exactly once in whatever order the blocks are visited; an end workset never
\* changes once it is set, whatever is removed from start worksets later.
C23_CloneOfPredEnd ==
    /\ [](\A B \in BelBlocks :
            (at_block_start(B) /\ B # StartBlock /\ Len(Preds(B)) = 1) =>
                /\ Preds(B)[1] \in has_end
                /\ Preds(B)[1] \notin on_stack
                /\ ws_start[B] = ws_end[Preds(B)[1]]
                /\ ws = ws_end[Preds(B)[1]])
    /\ [](/\ \A i, j \in DOMAIN stack : stack[i].blk = stack[j].blk => i = j
          /\ \A i \in DOMAIN stack : stack[i].blk \notin has_end
          /\ \A i \in DOMAIN stack : stack[i].pc # "start" => stack[i].blk \in has_info
          /\ has_end \subseteq has_info
          /\ bel_phase \in {"fix", "insert", "done"} => has_end = BelBlocks)
    /\ [][/\ \A b \in on_stack' \ on_stack : b \notin has_info
          /\ has_info \subseteq has_info'
          /\ has_end \subseteq has_end'
          /\ \A b \in has_end : ws_end'[b] = ws_end[b]]_vars

\* block 5 took the end workset of block 4 with the phi p in it, and p was
\* removed from the start workset of block 5 afterwards: the end workset of
\* block 4 still has p
C23_Witness ==
    /\ {4, 5} \subseteq has_end
    /\ "p" \in Range(ws_end[4])
    /\ "p" \notin Range(ws_start[5])
    /\ Len(ws_start[5]) < Len(ws_end[4])

\* C24: when the pass is over, every phi of the class that is not in the
\* start workset of its block has been marked for spilling, whatever the
\* number of predecessors of the block.
C24_PhisNotRetainedSpilled ==
    bel_phase = "done" =>
        \A B \in BelBlocks : \A ph \in PhisOf(B) :
            ph \notin Range(ws_start[B]) => ph \in spilled_phis

\* C25: a displace asks for a reload of v in front of instruction I exactly
\* when it is the use-displace of I, v is a value of the class among the
\* operands of I and v is not in the workset when the displace begins; a
\* def-displace asks for none, nothing else asks for a reload at an
\* instruction, and no value is asked for twice by one displace.
C25_ReloadsAtUses ==
    /\ [][last_displace' # last_displace =>
            LET d == last_displace'
                need == IF d.is_usage
                        THEN {v \in Range(Ins(d.instr)) \cap ClassValues : v \notin Range(ws)}
                        ELSE {}
            IN /\ reloads' = reloads \cup {<<v, d.instr>> : v \in need}
               /\ \A r \in reloads : r[2] # d.instr \/ ~d.is_usage
               /\ Range(d.requested) = need
               /\ Len(d.requested) = Cardinality(need)]_vars
    /\ [][last_displace' = last_displace => reloads' = reloads]_vars

\* an instruction has a value that is not in the workset as both of its
\* operands: its use-displace asked for one reload
C25_Witness ==
    /\ last_displace.is_usage
    /\ \E v \in ClassValues :
          /\ Ins(last_displace.instr) = <<v, v>>
          /\ v \notin Range(last_displace.before)
          /\ last_displace.requested = <<v>>
          /\ <<v, last_displace.instr>> \in reloads

\* C26: get_distance gives 0 for a value with the dont_spill flag, whatever
\* its next use is, and no displace disposes of a value with the dont_spill
\* flag that is in the workset.
C26_PinnedStay ==
    /\ \A b \in BelBlocks : \A pos \in 1..SchedLen(b) : \A v \in prog.dont_spill :
          \A skip \in BOOLEAN : get_distance(b, pos, v, skip) = 0
    /\ Range(last_displace.evicted) \cap prog.dont_spill = {}

\* C27: after the use-displace of an instruction every value of the class it
\* uses is in the workset; no operand that was in the workset is among the
\* values disposed of, ties at distance 0 included.
C27_OperandsResident ==
    last_displace.is_usage =>
        LET ops == Range(Ins(last_displace.instr)) \cap ClassValues
        IN /\ ops \subseteq Range(last_displace.after)
           /\ ops \cap Range(last_displace.evicted) = {}

\* the place of a phase in the pass
phase_rank(ph) ==
    CASE ph = "walk" -> 1 [] ph = "fix" -> 2 [] ph = "insert" -> 3 [] ph = "done" -> 4
      [] ph = "abort" -> 5

\* C39: the phases of the pass follow each other: fix_block_borders works on a
\* block only when belady has been through every block, and it is the
\* only one to ask for reloads on edges; be_insert_spills_reloads runs only
\* when fix_block_borders has been through every block; the block walk does
\* nothing once the edge fixup has begun, the edge fixup nothing once the
\* requests are turned into nodes.  (A pass that stops on a failed assertion
\* stops in the block walk.)
C39_PhaseOrder ==
    [][/\ phase_rank(bel_phase) <= phase_rank(bel_phase')
       /\ (fixed' # fixed \/ edge_reloads' # edge_reloads) =>
             /\ has_end = BelBlocks /\ has_info = BelBlocks /\ stack = << >>
             /\ bel_phase = "fix" /\ bel_phase' = "fix"
             /\ <<has_end, ws_start, ws_end, reloads, spilled_phis>>' =
                    <<has_end, ws_start, ws_end, reloads, spilled_phis>>
       /\ (bel_phase = "insert" /\ bel_phase' = "done") =>
             /\ fixed = BelBlocks /\ has_end = BelBlocks
             /\ <<reloads, edge_reloads, spilled_phis>>' = <<reloads, edge_reloads, spilled_phis>>
       /\ <<stack, has_info, has_end, ws_start, ws_end, ws, reloads, spilled_phis>>' #
             <<stack, has_info, has_end, ws_start, ws_end, ws, reloads, spilled_phis>> =>
             /\ bel_phase = "walk" /\ bel_phase' \in {"walk", "abort"}
             /\ fixed = {} /\ edge_reloads = {}]_vars

\* the pass is through on a program of five blocks; the walk asked for reloads
\* in front of instructions and for a spilled phi, the fixup for reloads on edges
C39_Witness ==
    /\ bel_phase = "done"
    /\ Len(prog.blocks) = 5
    /\ fixed = BelBlocks
    /\ reloads # {}
    /\ edge_reloads # {}

\* C40: when displace runs for the values an instruction defines, none of them
\* is in the working set already, whether the block started from a set of its
\* own or from the copy of the end set of its only predecessor.
C40_DefNotResident ==
    (last_displace.instr # "" /\ ~last_displace.is_usage) =>
        Range(last_displace.new_vals) \cap Range(last_displace.before) = {}

\* displace has run for the two Projs of a tuple, in a block that started from
\* the copy of its predecessor's end set, with values in the working set
C40_Witness ==
    /\ last_displace.instr # ""
    /\ ~last_displace.is_usage
    /\ single_pred(last_displace.blk)
    /\ Len(last_displace.new_vals) = 2
    /\ last_displace.before # << >>
    /\ Range(last_displace.before) \cap Range(ws_end[Preds(last_displace.blk)[1]]) # {}

(***************************************************************************)
(* Claims about the list scheduler (checked under SpecSched).              *)
(***************************************************************************)
\* the place of node n in the schedule of block b (0: not in it)
schedule_index(b, n) ==
    IF n \in Range(sched[b]) THEN Min({i \in DOMAIN sched[b] : sched[b][i] = n}) ELSE 0

\* every operand of I that is of block b and appears in schedules comes before place i
OperandsBefore(b, i) ==
    \A u \in Range(ins_or_deps(sched[b][i])) :
        (sched_block(u) = b /\ to_appear_in_schedule(u))
            => (schedule_index(b, u) > 0 /\ schedule_index(b, u) < i)

\* C7 as stated: in the schedules the scheduler ends with, every instruction of a
\* block comes after each of its operands (data or dependency) that lives in the
\* same block.
C7_OperandsFirst ==
    ls_phase = "done" =>
        \A b \in DOMAIN sched : \A i \in DOMAIN sched[b] : OperandsBefore(b, i)

\* C7 amended: at any time, every scheduled instruction of a block that is not a
\* Phi comes after each of its operands that lives in the same block.
C7_OperandsFirstNonPhi ==
    \A b \in DOMAIN sched : \A i \in DOMAIN sched[b] :
        graph.nodes[sched[b][i]].op # "Phi" => OperandsBefore(b, i)

\* a finished schedule in which an instruction follows two operands of its block,
\* one of them a dependency, and the selector had the choice between them
C7_Witness ==
    /\ ls_phase = "done"
    /\ \E b \in DOMAIN sched : \E i \in DOMAIN sched[b] :
          LET I == sched[b][i]
          IN /\ graph.nodes[I].op = "Normal"
             /\ graph.nodes[I].deps # << >>
             /\ Cardinality({u \in Range(ins_or_deps(I)) : sched_block(u) = b}) >= 2
    /\ \E c \in selector : Cardinality(c[1][1]) >= 2

\* C9: a second call of the scheduler with the same deterministic selector ends
\* with the schedule of the first call in every block; the per-node scheduling
\* state starts cleared and ends as it ended the first time.
C9_Idempotent ==
    /\ (ls_phase = "done" /\ run >= 2) =>
            (sched = first_run.sched /\ sched_info = first_run.info)
    /\ (ls_phase = "walk" /\ run >= 1 /\ todo = graph.blocks) =>
            sched_info = fresh_sched_info

\* the second call is through, the schedules have several nodes, the selector was asked
C9_Witness ==
    /\ ls_phase = "done"
    /\ run = 2
    /\ \A b \in DOMAIN sched : Len(sched[b]) >= 2
    /\ selector # {}
    /\ \E n \in DOMAIN sched_info : sched_info[n].num_not_sched_user # 0

\* the calls the selector gets with the environment of one block
block_calls == {"init_block", "node_ready", "select", "node_selected", "finish_block"}

\* the places of the calls fn(b) in calls
calls_at(fn, b) == {i \in DOMAIN calls : calls[i].fn = fn /\ calls[i].block = b}

\* C11: init_graph is the first call and is made once; every call for a block
\* comes after the one init_block of the block and none comes after its one
\* finish_block; the calls of a block are not interleaved with those of another
\* block and are about nodes of the block; finish_graph is made once, as the last
\* call, when every block has had its finish_block.
C11_SelectorProtocol ==
    /\ ls_phase \notin {"idle", "off"} => (calls # << >> /\ calls[1].fn = "init_graph")
    /\ \A i \in DOMAIN calls :
          /\ calls[i].fn = "init_graph" => i = 1
          /\ calls[i].fn = "finish_graph" =>
                /\ i = Len(calls)
                /\ \A b \in Range(graph.blocks) :
                      \E j \in calls_at("finish_block", b) : j < i
          /\ calls[i].fn \in block_calls =>
                LET b == calls[i].block
                IN /\ b \in Range(graph.blocks)
                   /\ Cardinality(calls_at("init_block", b)) = 1
                   /\ Cardinality(calls_at("finish_block", b)) <= 1
                   /\ \A j \in calls_at("init_block", b) : j <= i
                   /\ \A j \in calls_at("finish_block", b) : i <= j
                   /\ \A j \in calls_at("init_block", b) : \A k \in j..i :
                         calls[k].block = b
                   /\ calls[i].irn # "" => sched_block(calls[i].irn) = b
    /\ ls_phase = "done" => calls[Len(calls)].fn = "finish_graph"

\* the scheduler is through with both blocks; the selector was told about ready
\* nodes, asked and told about the selected node in either block
C11_Witness ==
    /\ ls_phase = "done"
    /\ \A b \in SchedBlocks : \A fn \in block_calls : calls_at(fn, b) # {}

\* every operand of n (data or dependency) of block b is scheduled
in_block_operands_scheduled(b, n) ==
    \A u \in Range(graph.nodes[n].ins) \cup Range(graph.nodes[n].deps) :
        sched_block(u) = b => sched_info[u].already_sched

\* C12: while a block is scheduled, every member of the ready set is a node of
\* the block that appears in the schedule, is not scheduled, has all its
\* operands of the block scheduled and was announced with node_ready since the
\* init_block of the block; select was only ever called with a ready set that had
\* members, all of them announced before, and returned one of them.
C12_ReadySet ==
    /\ ls_phase = "loop" =>
          \A n \in cands :
              LET b == Head(todo)
              IN /\ sched_block(n) = b
                 /\ to_appear_in_schedule(n)
                 /\ ~sched_info[n].already_sched
                 /\ n \notin Range(sched[b])
                 /\ in_block_operands_scheduled(b, n)
                 /\ \E i \in calls_at("node_ready", b) : calls[i].irn = n
    /\ \A i \in DOMAIN calls :
          calls[i].fn = "select" =>
              /\ calls[i].ready # {}
              /\ calls[i].irn \in calls[i].ready
              /\ \A n \in calls[i].ready :
                    \E j \in calls_at("node_ready", calls[i].block) :
                        j < i /\ calls[j].irn = n

\* the selector is about to be asked with two ready nodes, one of them with a
\* data operand and a dependency of the block that are both scheduled
C12_Witness ==
    /\ ls_phase = "loop"
    /\ Cardinality(cands) >= 2
    /\ keeps(cands) = {}
    /\ \E n \in cands :
          /\ \E u \in Range(graph.nodes[n].ins) : sched_block(u) = Head(todo)
          /\ \E u \in Range(graph.nodes[n].deps) : sched_block(u) = Head(todo)
    /\ \E i \in DOMAIN calls : calls[i].fn = "select" /\ Cardinality(calls[i].ready) >= 2

\* C28: an iteration of the main loop that finds a Keep, a CopyKeep or a Sync
\* in the ready set schedules one of them and does not call select; one that
\* finds none calls select once, with the ready set, and schedules the node
\* select returned.
C28_KeepsWithoutSelect ==
    [][(ls_phase = "loop" /\ cands # {}) =>
         LET b == Head(todo)
             picked == sched'[b][Len(sched[b]) + 1]
             made == SubSeq(calls', Len(calls) + 1, Len(calls'))
             selects == {i \in DOMAIN made : made[i].fn = "select"}
             urgent == {n \in cands : graph.nodes[n].op \in {"Keep", "CopyKeep", "Sync"}}
         IN /\ Len(sched'[b]) = Len(sched[b]) + 1
            /\ picked \in cands
            /\ IF urgent # {}
               THEN picked \in urgent /\ selects = {}
               ELSE /\ selects = {1}
                    /\ made[1].ready = cands
                    /\ made[1].irn = picked
                    /\ made[1].block = b]_vars

\* a Keep, CopyKeep or Sync was scheduled while another node was in the ready
\* set, which still is: select was not called for it
C28_Witness ==
    /\ ls_phase = "loop"
    /\ \E i \in DOMAIN calls :
          /\ calls[i].fn = "node_selected"
          /\ graph.nodes[calls[i].irn].op \in {"Keep", "CopyKeep", "Sync"}
          /\ calls[i - 1].fn # "select"
          /\ \E c \in cands : \E j \in 1..(i - 1) :
                calls[j].fn = "node_ready" /\ calls[j].irn = c /\ calls[j].block = Head(todo)
    /\ \E i \in DOMAIN calls : calls[i].fn = "select"

\* the nodes of block b some node uses as a data operand
used_nodes(b) ==
    {n \in Nodes : sched_block(n) = b /\ \E u \in Nodes : n \in Range(graph.nodes[u].ins)}

\* C29: the seeding of a block puts the phis of the block and the Start node
\* into the schedule and nothing else, the main loop adds neither a Phi nor a
\* Start; so in every schedule nothing but Phis and Start comes before a Phi,
\* and Start is the first entry of the schedule it is in.
C29_PhisAndStartFirst ==
    /\ [](\A b \in DOMAIN sched : \A j \in DOMAIN sched[b] :
            /\ graph.nodes[sched[b][j]].op = "Phi" =>
                  \A i \in 1..(j - 1) : graph.nodes[sched[b][i]].op \in {"Phi", "Start"}
            /\ graph.nodes[sched[b][j]].op = "Start" => j = 1)
    /\ [][(ls_phase = "walk" /\ todo # << >>) =>
            LET b == Head(todo)
            IN /\ Range(sched'[b]) =
                     {n \in used_nodes(b) : graph.nodes[n].op \in {"Phi", "Start"}}
               /\ Len(sched'[b]) = Cardinality(Range(sched'[b]))]_vars
    /\ [][(ls_phase = "loop" /\ cands # {}) =>
            LET b == Head(todo)
            IN /\ SubSeq(sched'[b], 1, Len(sched[b])) = sched[b]
               /\ \A i \in (Len(sched[b]) + 1)..Len(sched'[b]) :
                     graph.nodes[sched'[b][i]].op \notin {"Phi", "Start"}]_vars

\* both blocks are scheduled: Start is the first entry of the start block, the
\* Phi is the first entry of the loop block although one of its operands is
\* scheduled behind it, and a node all of whose operands are in the other block
\* comes after the Phi
C29_Witness ==
    /\ ls_phase = "done"
    /\ graph.nodes[sched[1][1]].op = "Start"
    /\ Len(sched[1]) >= 3
    /\ graph.nodes[sched[2][1]].op = "Phi"
    /\ \E j \in 2..Len(sched[2]) : sched[2][j] \in Range(graph.nodes[sched[2][1]].ins)
    /\ \E j \in 2..Len(sched[2]) :
          \A u \in Range(ins_or_deps(sched[2][j])) : sched_block(u) = 1

\* C30: the seeding of a block makes the nodes ready whose operands are all
\* in other blocks (a node of the ready set has no operand in the block that
\* is not scheduled yet), and a node of another block is in live after the
\* seeding only if it is an operand of a node all of whose operands are in
\* other blocks.
C30_SeedLive ==
    [][(ls_phase = "walk" /\ todo # << >>) =>
         LET b == Head(todo)
             tested == {n \in used_nodes(b) : graph.nodes[n].op \notin {"End", "Phi", "Start"}}
             all_foreign(n) == \A u \in Range(ins_or_deps(n)) : sched_block(u) # b
         IN /\ \A n \in tested :
                  all_foreign(n) => (n \in cands' \/ sched_info'[n].already_sched)
            /\ \A n \in cands' : \A u \in Range(ins_or_deps(n)) :
                  sched_block(u) = b => sched_info'[u].already_sched
            /\ \A v \in live' :
                  sched_block(v) # b =>
                      \E n \in tested : all_foreign(n) /\ v \in Range(ins_or_deps(n))]_vars

\* the value an operand stands for: the node itself, or the node a Proj
\* projects from
value_of(n) == skip_Proj(n)

\* the edges to value v from users other than End that satisfy pending:
\* <<user, operand position>>, the users of the Projs of v included
user_edges(v, pending(_)) ==
    {e \in Nodes \X (1..3) :
        /\ graph.nodes[e[1]].op \notin {"End", "Proj"}
        /\ pending(e[1])
        /\ e[2] \in DOMAIN graph.nodes[e[1]].ins
        /\ value_of(graph.nodes[e[1]].ins[e[2]]) = v}

\* C31: when the main loop appends a node, the count of every input of the
\* node that is in live goes down; a value leaves live only as an input whose
\* count has come down to zero, and a value that still has a user that is not
\* scheduled, in whatever block, stays in live; the node appended enters live
\* with the number of its users in all blocks as its count.
C31_LiveCounts ==
    [][(ls_phase = "loop" /\ cands # {}) =>
         LET b == Head(todo)
             picked == sched'[b][Len(sched[b]) + 1]
             inputs == {value_of(u) : u \in Range(ins_or_deps(picked))}
             waiting(u) == ~sched_info'[u].already_sched
             anyone(u) == TRUE
         IN /\ \A v \in (inputs \cap live) \ {picked} :
                  sched_info'[v].num_not_sched_user < sched_info[v].num_not_sched_user
            /\ \A v \in live \ (live' \cup {picked}) :
                  v \in inputs /\ sched_info'[v].num_not_sched_user <= 0
            /\ \A v \in live : user_edges(v, waiting) # {} => v \in live'
            /\ picked \in live' <=> user_edges(picked, anyone) # {}
            /\ picked \in live' =>
                  sched_info'[picked].num_not_sched_user =
                      Cardinality(user_edges(picked, anyone))]_vars

RECURSIVE operands_closure(_, _)
\* the nodes S and the nodes they need, over data and dependency operands
operands_closure(S, depth) ==
    IF depth = 0 THEN S
    ELSE operands_closure(S \cup UNION {Range(ins_or_deps(n)) : n \in S}, depth - 1)

\* the instructions of block b: the nodes of the block End needs that are to
\* appear in a schedule
instructions(b) ==
    {n \in operands_closure({e \in Nodes : graph.nodes[e].op = "End"}, Cardinality(Nodes)) :
        sched_block(n) = b /\ to_appear_in_schedule(n)}

\* C32: the main loop of a block ends with an empty ready set, and then every
\* instruction of the block is in the schedule of the block (the operand
\* edges inside a block have no cycle but through a Phi, and the selector
\* returns a member of the ready set).
C32_ScheduleComplete ==
    /\ (ls_phase = "loop" /\ cands = {}) => instructions(Head(todo)) \subseteq Range(sched[Head(todo)])
    /\ ls_phase = "done" => \A b \in SchedBlocks : instructions(b) \subseteq Range(sched[b])

\* the blocks list_sched_block has been entered for in this run
entered_blocks ==
    IF ls_phase \in {"walk", "loop", "done"}
    THEN {b \in SchedBlocks : b \notin Range(todo) \/ (ls_phase = "loop" /\ b = Head(todo))}
    ELSE {}

\* how often node_selected was reported for node n
selected_count(n) ==
    Cardinality({i \in DOMAIN calls : calls[i].fn = "node_selected" /\ calls[i].irn = n})

\* C33: no node is in a schedule twice or in the schedule of another block
\* than its own; a node that is marked already_scheduled is not in the ready
\* set; node_selected has been reported exactly once for every node
\* appended in this run.
C33_AppendedOnce ==
    /\ \A b \in SchedBlocks :
          /\ \A i, j \in DOMAIN sched[b] : sched[b][i] = sched[b][j] => i = j
          /\ \A n \in Range(sched[b]) : sched_block(n) = b
    /\ ls_phase = "loop" =>
          \A n \in cands : ~sched_info[n].already_sched /\ n \notin Range(sched[Head(todo)])
    /\ \A b \in entered_blocks : \A n \in Range(sched[b]) :
          sched_info[n].already_sched /\ selected_count(n) = 1

\* a node with two edges from the same operand of its block (two data edges,
\* or a data and a dependency edge) has been appended
C33_Witness ==
    \E b \in entered_blocks : \E n \in Range(sched[b]) :
        \E i, j \in DOMAIN ins_or_deps(n) :
            /\ i < j
            /\ ins_or_deps(n)[i] = ins_or_deps(n)[j]
            /\ sched_block(ins_or_deps(n)[i]) = b
            /\ to_appear_in_schedule(ins_or_deps(n)[i])

(***************************************************************************)
(* Claims about the chordal allocator (checked under SpecChordal).         *)
(***************************************************************************)
\* the values live behind border k of block b, read off the program's border list
LiveAtBorder(b, k) ==
    LET bl == create_borders(b)
    IN {v \in Range(AllValues) :
          /\ \E i \in 1..k : bl[i].is_def /\ bl[i].irn = v
          /\ ~\E i \in 1..k : ~bl[i].is_def /\ bl[i].irn = v}

\* values_interfere: the two values are live at the same time somewhere
values_interfere(x, y) ==
    /\ x # y
    /\ \E b \in ChordalBlocks : \E k \in DOMAIN create_borders(b) :
          {x, y} \subseteq LiveAtBorder(b, k)

\* C3: after chordal_color, two values of the class that interfere (that are live
\* at the same time) have different registers, whether the coloring walk, the
\* matching of the constraint handling or the Perm fill-in gave them.
C3_ColoringValid ==
    ch_phase = "done" =>
        \A x, y \in DOMAIN reg : values_interfere(x, y) => reg[x] # reg[y]

\* the pass is through; a Perm output that got its register in the fill-in, a
\* value of the matching and a value of the coloring walk interfere with others
C3_Witness ==
    /\ ch_phase = "done"
    /\ \E x \in Range(last_insn.projs) : \E y \in Range(last_insn.alloc_nodes) :
          /\ x \notin Range(last_insn.alloc_nodes)
          /\ \A i \in DOMAIN last_insn.ops : last_insn.ops[i].carrier # x
          /\ values_interfere(x, y)
    /\ \E x, y \in Range(last_insn.alloc_nodes) : values_interfere(x, y)
    /\ \E i \in DOMAIN cprog.blocks[1] : \E x, y \in DOMAIN reg :
          /\ cprog.blocks[1][i].op = "Normal"
          /\ ~cprog.blocks[1][i].has_constraints
          /\ x \in Range(cprog.blocks[1][i].defs)
          /\ values_interfere(x, y)

\* C4: after handle_constraints went through for an instruction, every operand's
\* value (several operands of the same value included) has a register that is
\* in the operand's regs.
C4_ConstraintRespect ==
    (ch_phase = "constraints" /\ last_insn.name # "") =>
        \A i \in DOMAIN last_insn.ops :
            reg[last_insn.ops[i].carrier] \in last_insn.ops[i].regs

\* C5: operands that pair_up_operands made partners have values with the same
\* register, and it is in the regs of both.
C5_PartnerAgreement ==
    (ch_phase = "constraints" /\ last_insn.name # "") =>
        \A i \in DOMAIN last_insn.ops :
            last_insn.partner[i] # 0 =>
                LET o1 == last_insn.ops[i]
                    o2 == last_insn.ops[last_insn.partner[i]]
                IN /\ reg[o1.carrier] = reg[o2.carrier]
                   /\ reg[o1.carrier] \in o1.regs \cap o2.regs

\* the left nodes of the last constrained instruction can all get a register of
\* their own among the registers they have an edge to
perfect_matching_exists ==
    \E f \in [DOMAIN last_insn.edges -> 0..(cprog.n_regs - 1)] :
        /\ \A i \in DOMAIN f : f[i] \in last_insn.edges[i]
        /\ \A i, j \in DOMAIN f : f[i] = f[j] => i = j

\* a result of the last constrained instruction has a partner and neither of the
\* two sets of admissible registers holds the other
partners_not_nested ==
    \E i \in DOMAIN last_insn.ops :
        /\ last_insn.ops[i].out
        /\ last_insn.partner[i] # 0
        /\ ~(last_insn.ops[i].regs \subseteq last_insn.ops[last_insn.partner[i]].regs)
        /\ ~(last_insn.ops[last_insn.partner[i]].regs \subseteq last_insn.ops[i].regs)

\* C13: when the left nodes of a constrained instruction (at most n of them)
\* cannot all be matched to a register of their own, or a result and its partner
\* have admissible registers that are not nested, handle_constraints aborts; when
\* it does not abort, every left node has a register it has an edge to, and no
\* two left nodes have the same.
C13_MatchingFailureAborts ==
    (last_insn.name # "" /\ Len(last_insn.alloc_nodes) <= cprog.n_regs) =>
        /\ (~perfect_matching_exists \/ partners_not_nested) => ch_phase = "abort"
        /\ ch_phase = "constraints" =>
              \A i, j \in DOMAIN last_insn.alloc_nodes :
                  /\ reg[last_insn.alloc_nodes[i]] \in last_insn.edges[i]
                  /\ reg[last_insn.alloc_nodes[i]] = reg[last_insn.alloc_nodes[j]] => i = j

\* the pass stopped at an instruction with two left nodes that both have r0 as
\* their only admissible register
C13_Witness ==
    /\ ch_phase = "abort"
    /\ ~last_insn.asserted
    /\ Len(last_insn.alloc_nodes) = 2
    /\ \A i \in DOMAIN last_insn.edges : last_insn.edges[i] = {0}

\* assign is at the def border of a value that is not live in at the block
at_local_def ==
    /\ ch_phase = "assign"
    /\ ch_pc[1] \in ChordalBlocks
    /\ ch_pc[2] > 0
    /\ borders[ch_pc[1]][ch_pc[2]].is_def
    /\ borders[ch_pc[1]][ch_pc[2]].irn \notin ch_live_in(ch_pc[1])

\* the value of the border assign is at
border_irn == borders[ch_pc[1]][ch_pc[2]].irn

\* the registers the values hold that assign has as live
held_registers == {reg[v] : v \in alloc_live}

\* C14: when assign comes to the def of a local value without a register and
\* every allocatable register is in use, the pass aborts and gives the value no
\* register; otherwise the value gets an allocatable register that is not in
\* colors and that no live value holds.
C14_ColorsExhaustedAborts ==
    [][(at_local_def /\ reg[border_irn] = NoReg) =>
          IF cprog.allocatable \subseteq colors
          THEN ch_phase' = "abort" /\ reg' = reg
          ELSE /\ ch_phase' = "assign"
               /\ reg'[border_irn] \in cprog.allocatable \ (colors \cup held_registers)]_vars

\* the pass stopped at the def of a value without a register when three live
\* values held the three allocatable registers
C14_Witness ==
    /\ ch_phase = "abort"
    /\ ch_pc[1] \in ChordalBlocks /\ ch_pc[2] > 0
    /\ borders[ch_pc[1]][ch_pc[2]].is_def
    /\ reg[border_irn] = NoReg
    /\ cprog.allocatable \subseteq held_registers
    /\ Cardinality(alloc_live) = 3

\* C15: when assign comes to the def of a local value that has a register
\* already, the pass aborts if a live value holds that register; otherwise the
\* register goes into colors, the value becomes live and no register changes.
C15_PrecoloredDef ==
    [][(at_local_def /\ reg[border_irn] # NoReg) =>
          IF reg[border_irn] \in held_registers
          THEN ch_phase' = "abort" /\ reg' = reg
          ELSE /\ ch_phase' = "assign"
               /\ reg' = reg
               /\ colors' = colors \cup {reg[border_irn]}
               /\ alloc_live' = alloc_live \cup {border_irn}]_vars

\* the pass stopped at the def of a value whose register, assigned before the
\* pass, is held by a live value
C15_Witness ==
    /\ ch_phase = "abort"
    /\ ch_pc[1] \in ChordalBlocks /\ ch_pc[2] > 0
    /\ borders[ch_pc[1]][ch_pc[2]].is_def
    /\ border_irn \in DOMAIN cprog.pre
    /\ reg[border_irn] = cprog.pre[border_irn]
    /\ \E v \in alloc_live : v # border_irn /\ reg[v] = reg[border_irn]

\* C16: alloc_nodes of a constrained instruction never holds more than n_regs
\* nodes; when the instruction has more operands or values living through than
\* that, the pass has aborted on the assertion and the node was not stored.
C16_LeftNodeBound ==
    last_insn.name # "" =>
        /\ Len(last_insn.alloc_nodes) <= cprog.n_regs
        /\ last_insn.asserted => ch_phase = "abort"
        /\ ch_phase # "corrupt"

\* C6: a value that had a register before chordal_color has the same register
\* at every time of the pass.
C6_PrecoloringKept ==
    ch_phase # "abort" => \A v \in DOMAIN cprog.pre : reg[v] = cprog.pre[v]

\* C10: on a program without constraints, pre-assigned registers, ignored values
\* and partners, every definition of the coloring walk gets the lowest
\* allocatable register no live value holds, and the constraint walk leaves all
\* values without a register.
C10_GreedyFirstFit ==
    cprog \in PlainPrograms =>
        /\ ch_phase = "constraints" => \A v \in DOMAIN reg : reg[v] = NoReg
        /\ last_def.irn # "" =>
              LET held == {reg[v] : v \in LiveAtBorder(last_def.at[1], last_def.at[2] - 1)}
              IN /\ cprog.allocatable \ held # {}
                 /\ last_def.col = Min(cprog.allocatable \ held)
                 /\ reg[last_def.irn] = last_def.col

\* the third of three values live at the same time got r2 behind r0 and r1
C10_Witness ==
    /\ cprog \in PlainPrograms
    /\ ch_phase = "assign"
    /\ last_def.col = 2
    /\ \E x, y \in alloc_live : reg[x] = 0 /\ reg[y] = 1 /\ reg[last_def.irn] = 2

\* the border event the coloring walk has just been through; NoEvent at the
\* start of a block
NoEvent == Event(TRUE, "")

event_before(pc) ==
    IF pc[1] \in ChordalBlocks /\ pc[2] > 1 THEN borders[pc[1]][pc[2] - 1]
    ELSE IF pc[1] > 1 /\ pc[2] = 0 /\ borders[pc[1] - 1] # << >>
    THEN borders[pc[1] - 1][Len(borders[pc[1] - 1])]
    ELSE NoEvent

\* C34: in the coloring walk of a block, behind the initialisation with the
\* values live in and behind every border event, colors holds exactly the
\* registers of the values in live and no two values in live have the same
\* register; a use event takes the used value out of live and exactly its
\* register out of colors.
C34_ColorsAreLive ==
    [][(ch_phase = "assign" /\ ch_phase' = "assign" /\ ch_pc' # ch_pc) =>
          /\ colors' = {reg'[v] : v \in alloc_live'}
          /\ \A v, w \in alloc_live' : reg'[v] = reg'[w] => v = w
          /\ \A v \in alloc_live' : reg'[v] # NoReg
          /\ (ch_pc[2] > 0 /\ ~borders[ch_pc[1]][ch_pc[2]].is_def) =>
                LET irn == borders[ch_pc[1]][ch_pc[2]].irn
                IN /\ alloc_live \ alloc_live' = {irn}
                   /\ colors \ colors' = {reg[irn]}
                   /\ alloc_live' \subseteq alloc_live
                   /\ colors' \subseteq colors]_vars

\* a use event in a block with values live in has freed a register while two
\* other values stay live
C34_Witness ==
    /\ ch_phase = "assign"
    /\ ch_pc[1] = 2
    /\ ch_live_in(2) # {}
    /\ ~event_before(ch_pc).is_def
    /\ event_before(ch_pc).irn # ""
    /\ Cardinality(alloc_live) >= 2
    /\ reg[event_before(ch_pc).irn] \notin colors

\* C35: the left node made for an operand o has edges to o.regs when o has no
\* partner or o.regs is within the partner's regs, to the partner's regs when
\* these are within o.regs, and no edge otherwise: to the registers both allow
\* when one of the two sets holds the other, to none when neither does.
C35_DecisiveConstraint ==
    last_insn.name # "" =>
        \A k \in DOMAIN last_insn.alloc_nodes :
            last_insn.alloc_ops[k] # 0 =>
                LET i == last_insn.alloc_ops[k]
                    o == last_insn.ops[i].regs
                    p == last_insn.ops[last_insn.partner[i]].regs
                    decisive == last_insn.edges[k]
                IN /\ last_insn.ops[i].carrier = last_insn.alloc_nodes[k]
                   /\ last_insn.partner[i] = 0 => decisive = o
                   /\ last_insn.partner[i] # 0 =>
                         /\ o \subseteq p => decisive = o
                         /\ p \subseteq o => decisive = p
                         /\ (o \subseteq p \/ p \subseteq o) => decisive = o \cap p
                         /\ ~(o \subseteq p \/ p \subseteq o) => decisive = {}

\* handle_constraints made a left node for a result whose partner allows less
\* than the result, and one for a result whose registers and whose partner's
\* overlap without one set holding the other
C35_Witness ==
    /\ last_insn.name # ""
    /\ \E k \in DOMAIN last_insn.alloc_nodes :
          LET i == last_insn.alloc_ops[k]
          IN /\ i # 0
             /\ last_insn.partner[i] # 0
             /\ last_insn.edges[k] = last_insn.ops[last_insn.partner[i]].regs
             /\ last_insn.edges[k] # last_insn.ops[i].regs
    /\ \E k \in DOMAIN last_insn.alloc_nodes :
          LET i == last_insn.alloc_ops[k]
          IN /\ i # 0
             /\ last_insn.partner[i] # 0
             /\ last_insn.ops[i].regs \cap last_insn.ops[last_insn.partner[i]].regs # {}
             /\ last_insn.edges[k] = {}

\* the place <<block, index>> of the instruction of that name
insn_pos(name) ==
    CHOOSE pos \in {<<b, i>> : b \in ChordalBlocks,
                               i \in 1..(Len(cprog.blocks[1]) + Len(cprog.blocks[2]))} :
        pos[2] \in DOMAIN cprog.blocks[pos[1]] /\ cprog.blocks[pos[1]][pos[2]].name = name

\* the in operands the out operand j of the last constrained instruction could
\* be paired with: not the partner of an out operand in front of j, a value
\* that does not live on behind the instruction, a register in common with j
pair_candidates(j) ==
    LET ops == last_insn.ops
        pos == insn_pos(last_insn.name)
    IN {i \in DOMAIN ops :
          /\ ~ops[i].out
          /\ ~(last_insn.partner[i] # 0 /\ last_insn.partner[i] < j)
          /\ ~live_after(pos[1], pos[2], ops[i].carrier)
          /\ ops[i].regs \cap ops[j].regs # {}}

\* C36: pair_up_operands gives every out operand o, in the order of the
\* operands, the in operand u with the fewest admissible registers (the first
\* of them) among the in operands without a partner whose value does not live
\* on and that have a register in common with o; o is the partner of u, and of
\* every in operand with the value of u and of no other; in operands with the
\* same value have the same partner; an out operand without such an in operand
\* has no partner.
C36_PairUp ==
    last_insn.name # "" =>
        LET ops == last_insn.ops
            partner == last_insn.partner
            size(i) == Cardinality(ops[i].regs)
        IN /\ \A j \in DOMAIN ops : ops[j].out =>
                 LET cand == pair_candidates(j)
                     best == {i \in cand : \A k \in cand : size(i) <= size(k)}
                 IN IF cand = {}
                    THEN /\ partner[j] = 0
                         /\ \A i \in DOMAIN ops : partner[i] # j
                    ELSE /\ partner[j] \in best
                         /\ \A i \in best : partner[j] <= i
                         /\ partner[partner[j]] = j
                         /\ \A i \in DOMAIN ops :
                               partner[i] = j <=>
                                   (~ops[i].out /\ ops[i].carrier = ops[partner[j]].carrier)
           /\ \A i, k \in DOMAIN ops :
                 (~ops[i].out /\ ~ops[k].out /\ ops[i].carrier = ops[k].carrier) =>
                     partner[i] = partner[k]
           /\ \A i \in DOMAIN ops : partner[i] # 0 => ops[partner[i]].out # ops[i].out

\* an out operand had two in operands of the same value to choose from and
\* got the second, which admits fewer registers; the first has the out
\* operand as its partner as well
C36_Witness ==
    /\ last_insn.name # ""
    /\ \E j \in DOMAIN last_insn.ops : \E i \in pair_candidates(j) :
          /\ last_insn.ops[j].out
          /\ i < last_insn.partner[j]
          /\ last_insn.ops[i].carrier = last_insn.ops[last_insn.partner[j]].carrier
          /\ last_insn.partner[i] = j
          /\ Cardinality(last_insn.ops[i].regs) >
                 Cardinality(last_insn.ops[last_insn.partner[j]].regs)

\* the values that took part in the matching of the last constrained
\* instruction: the left nodes and the values of the operands
in_matching == Range(last_insn.alloc_nodes) \cup {last_insn.ops[i].carrier : i \in DOMAIN last_insn.ops}

\* C37: when handle_constraints is through with an instruction that has a Perm
\* in front, every Proj of the Perm has a register, no two of them have the
\* same, and a Proj that did not take part in the matching got an allocatable
\* register no other Proj of the Perm has.
C37_PermFilled ==
    (ch_phase = "constraints" /\ last_insn.name # "") =>
        LET projs == Range(last_insn.projs)
        IN /\ \A p \in projs : reg[p] # NoReg
           /\ \A p, q \in projs : reg[p] = reg[q] => p = q
           /\ \A p \in projs \ in_matching :
                 /\ last_insn.before[p] = NoReg => reg[p] \in cprog.allocatable
                 /\ \A q \in projs \ {p} : reg[q] # reg[p]

\* a Proj that did not take part in the matching got its register in the
\* fill-in, next to two Projs of the matching
C37_Witness ==
    /\ ch_phase = "constraints"
    /\ last_insn.name # ""
    /\ \E p \in Range(last_insn.projs) \ in_matching :
          /\ last_insn.before[p] = NoReg
          /\ reg[p] # NoReg
    /\ Cardinality(Range(last_insn.projs) \cap in_matching) >= 2

\* the instructions of both blocks as they are scheduled before the pass
start_order == sched_at_start(1) \o sched_at_start(2)

\* the instruction of that name
insn_named(name) ==
    CHOOSE insn \in Range(cprog.blocks[1]) \cup Range(cprog.blocks[2]) : insn.name = name

\* C38: the constraint walk calls handle_constraints for the instructions that
\* were in the schedule of a block when its walk started, once each and in the
\* order of the schedule, and for all of them when it gets to the end; never
\* for a Perm the constraint handling put in front of an instruction; a call
\* for a phi or an instruction without constraints changes no register and
\* not the schedule.
C38_WalkOnce ==
    [][/\ handled' = SubSeq(start_order, 1, Len(handled'))
       /\ ch_phase' \in {"assign", "done"} => handled' = start_order
       /\ \A b \in ChordalBlocks : Range(handled') \cap inserted_perms(b) = {}
       /\ handled' # handled =>
             LET insn == insn_named(handled'[Len(handled')])
             IN (~insn.has_constraints \/ insn.op = "Phi") =>
                    reg' = reg /\ ch_sched' = ch_sched /\ ch_phase' = ch_phase]_vars

\* the walk is through: it put a Perm in front of an instruction that has
\* another one behind it, and was called for both but not for the Perm
C38_Witness ==
    /\ ch_phase = "assign"
    /\ \E b \in ChordalBlocks : \E k \in DOMAIN ch_sched[b] :
          /\ ch_sched[b][k] \in inserted_perms(b)
          /\ k + 2 \in DOMAIN ch_sched[b]
          /\ ch_sched[b][k] \notin Range(handled)
          /\ {ch_sched[b][k + 1], ch_sched[b][k + 2]} \subseteq Range(handled)
          /\ insn_named(ch_sched[b][k + 1]).perm = ch_sched[b][k]

====
